---- MODULE Spec2Model ----
(***************************************************************************)
(* A model of the SYN DSL core (Raumberg/syn, package internal/dsl):       *)
(*   - the Compiler, which lowers a Program (AST) to the text of a Python  *)
(*     pipeline program (compiler.go, lines 1-849): SpecCompile,           *)
(*   - the Parser and the DSL facade (parser.go, dsl.go): SpecParse,       *)
(*   - the Executor, which runs that text as a child process               *)
(*     (compiler.go, lines 851-1046): SpecExec,                            *)
(*   - Tokenize, character by character (parser.go, lines 65-109):         *)
(*     SpecTokenize,                                                       *)
(*   - the generated Python program at run time, its batch driver and its  *)
(*     SIGINT handling (the text emitted by compiler.go, lines 51-418):    *)
(*     SpecGen,                                                            *)
(*   - the statement code of that program executed line by line, with its  *)
(*     registry of loaded datasets (the text emitted by compiler.go,       *)
(*     lines 435-664): SpecRun.                                            *)
(*                                                                         *)
(* Text is modelled line by line.  A line of the generated program is a    *)
(* record [k, v, s, n]: k names the format string that produced it, v      *)
(* holds the Python variable names substituted into it (character          *)
(* sequences), s the strings and n the integers.  Two outputs are          *)
(* byte-identical exactly when their line sequences are equal.             *)
(***************************************************************************)
EXTENDS Integers, Sequences, FiniteSets, TLC

VARIABLES
    program,    \* Compiler.program / the *Program handed to NewCompiler
    debug,      \* DSL.debug, copied into the compiler by SetDebug
    compiler,   \* the Compiler object: [datasets, enableSigIntHandler, debug]
    compiled,   \* history: Compile has been called on the Compiler held
    outputs,    \* history: each Compile call, in call order: its text, and the
                \* Compiler's fields as it found and left them
    input,      \* Parser.input: the source text, as its whitespace-separated words
    tokens,     \* Parser.tokens
    position,   \* Parser.position, the cursor (0-based)
    stack,      \* the parse functions that are active, innermost last
    dslpc,      \* where ParseAndCompile is: "start", "parsing", "parsed", "done"
    parsed,     \* what Parse returned: [program, err]
    result,     \* what ParseAndCompile returned: [text, err]
    execArgs,   \* Execute's arguments and the faults of its surroundings
    fsys,       \* the file system: the directories and the script files
    child,      \* the Python child process: its state and wait status
    io,         \* the child's pipes, the stderr Scanner's buffer, what was printed
    cmd,        \* exec.Cmd: ProcessState, nil until cmd.Wait has returned
    sigs,       \* signal delivery to the Executor: subscription and sigChan
    gor,        \* where Execute and its goroutines are, and the grace timer
    ret,        \* what Execute returned
    kills,      \* history: the cmd.Process.Kill() calls
    py,         \* the generated program running: main()'s position and variables
    drv,        \* generate_content_async: its semaphore, chunk and results
    tasks,      \* the process_item_async task of every item
    pymain,     \* main() of the generated program, statement code line by line
    generator   \* the DatasetGenerator of the in-process pipeline

compVars == <<program, debug, compiler, compiled, outputs>>
parseVars == <<input, tokens, position, stack, dslpc, parsed, result>>
execVars == <<execArgs, fsys, child, io, cmd, sigs, gor, ret, kills>>
pyVars == <<py, drv, tasks, pymain>>
pipeVars == <<generator>>
vars == <<program, debug, compiler, outputs,
          input, tokens, position, stack, dslpc, parsed, result,
          execArgs, fsys, child, io, cmd, sigs, gor, ret, kills, py, drv, tasks, pymain,
          generator>>

(***************************************************************************)
(* Bounds of the model.                                                    *)
(***************************************************************************)
MaxBlock == 3       \* statements in the FROM block of a generated program
MaxTop == 3         \* top-level statements of a generated program
MaxCompiles == 2    \* Compile calls observed per behaviour

Nil == [type |-> "nil"]
NoCompiler == [type |-> "none"]

\* no Execute is running
ExecIdle ==
    /\ execArgs = Nil /\ fsys = Nil /\ child = Nil /\ io = Nil /\ cmd = Nil
    /\ sigs = Nil /\ gor = Nil /\ ret = Nil /\ kills = <<>>

\* no generated program is running
PyIdle == py = Nil /\ drv = Nil /\ tasks = Nil /\ pymain = Nil

\* no DatasetGenerator has been made
PipeIdle == generator = Nil

(***************************************************************************)
(* The AST (ast.go).  A node is a record whose "type" is the Go struct's   *)
(* name; a nil *Block is Nil.  The Value of a STREAM WITH or an AUTOSAVE   *)
(* PRAGMA (Go: true) is written 1; a FILTER value is [int, text]: whether  *)
(* Atoi accepted it, and its text; a temperature is in tenths; a prompt    *)
(* template is the sequence of its space-separated pieces.                 *)
(***************************************************************************)
FromStatement(d, b) == [type |-> "FromStatement", Dataset |-> d, Block |-> b]
Block(stmts) == [type |-> "Block", Statements |-> stmts]
WithStatement(t, v, b) == [type |-> "WithStatement", Type |-> t, Value |-> v, Block |-> b]
FieldsStatement(fs) == [type |-> "FieldsStatement", Fields |-> fs]
UsingStatement(t, v) == [type |-> "UsingStatement", Type |-> t, Value |-> v]
UsingBlock(stmts) == [type |-> "UsingBlock", Statements |-> stmts]
FilterStatement(f, op, v) ==
    [type |-> "FilterStatement", Field |-> f, Operator |-> op, Value |-> v]
FilterBlock(f, conds) == [type |-> "FilterBlock", Field |-> f, Conditions |-> conds]
DatasetMergeStatement(ds) == [type |-> "DatasetMergeStatement", Datasets |-> ds]
SaveStatement(f) == [type |-> "SaveStatement", Filename |-> f]
PragmaStatement(t, v) == [type |-> "PragmaStatement", Type |-> t, Value |-> v]
GenerateStatement(src, tgt, m, temp, tok, prompts) ==
    [type |-> "GenerateStatement", SourceField |-> src, TargetField |-> tgt, Model |-> m,
     Temperature |-> temp, Tokens |-> tok, PromptTemplates |-> prompts]
PromptStatement(name, tmpl, fs, pt) ==
    [type |-> "PromptStatement", Name |-> name, Template |-> tmpl, Fields |-> fs,
     PromptType |-> pt]
Program(stmts) == [type |-> "Program", Statements |-> stmts]

(***************************************************************************)
(* Strings.  TLC's strings are atomic, so the bytes of a name are given by *)
(* a table; sanitizeVarName then works on the bytes as the Go code does.   *)
(***************************************************************************)
Chars(name) ==
    CASE name = "squad" -> <<"s", "q", "u", "a", "d">>
      [] name = "a/b" -> <<"a", "/", "b">>
      [] name = "a-b" -> <<"a", "-", "b">>
      [] name = "a.b" -> <<"a", ".", "b">>
      [] name = "a_b" -> <<"a", "_", "b">>
      [] name = "ds_squad" -> <<"d", "s", "_", "s", "q", "u", "a", "d">>
      [] name = "ds_a_b" -> <<"d", "s", "_", "a", "_", "b">>
      [] OTHER -> <<name>>

\* compiler.go:836-840: strings.NewReplacer("/", "_", "-", "_", ".", "_")
sanitizeVarName(name) ==
    [i \in 1..Len(Chars(name)) |->
        IF Chars(name)[i] \in {"/", "-", "."} THEN "_" ELSE Chars(name)[i]]

\* fmt.Sprintf("ds_%s", sanitizeVarName(n.Dataset))
DatasetVar(name) == <<"d", "s", "_">> \o sanitizeVarName(name)

RECURSIVE Digits(_)
\* %d of a non-negative integer
Digits(n) ==
    LET d == <<"0", "1", "2", "3", "4", "5", "6", "7", "8", "9">>
    IN IF n < 10 THEN <<d[n + 1]>> ELSE Digits(n \div 10) \o <<d[(n % 10) + 1]>>

\* fmt.Sprintf("merged_ds_%d", n)
MergedVar(n) == <<"m", "e", "r", "g", "e", "d", "_", "d", "s", "_">> \o Digits(n)

(***************************************************************************)
(* Lines of the generated program.                                         *)
(***************************************************************************)
Line(k, v, s, n) == [k |-> k, v |-> v, s |-> s, n |-> n]
Fixed(k) == Line(k, <<>>, <<>>, <<>>)

\* compiler.go:107 and :521, "signal.signal(signal.SIGINT, signal_handler)"
RegisterSigIntLine == Fixed("signal.signal(signal.SIGINT, signal_handler)")

\* compiler.go:480, "<var> = load_dataset_with_config('<name>', ...)"
LoadLine(dsVar, dataset) ==
    Line("= load_dataset_with_config(", <<dsVar, dsVar, dsVar>>, <<dataset>>, <<>>)

\* compiler.go:603 and :771, "save_current_results()"
SaveCallLine == Fixed("save_current_results()")

\* 'x' or None, as two strings
Quoted(s) == <<"'", s>>
PyNone == <<"None", "">>

(***************************************************************************)
(* Compiler.Compile: the prelude (compiler.go:54-416).  Everything is      *)
(* fixed text but the two places that read c.enableSigIntHandler.          *)
(***************************************************************************)
\* faulty variant: the prelude registers the handler whatever the flag
PreludeRegistered(c) ==
    << Fixed("imports"),
       Fixed("def main():"),
       Fixed("default values"),
       Line("sigint_handler_registered =", <<>>,
            <<IF c.enableSigIntHandler THEN "True" ELSE "False">>, <<>>),
       Fixed("def signal_handler(sig, frame):"),
       RegisterSigIntLine,
       Fixed("def save_current_results():"),
       Fixed("async def call_openai_api_async"),
       Fixed("async def process_item_async"),
       Fixed("async def generate_content_async"),
       Fixed("def generate_content"),
       Fixed("def load_dataset_with_config") >>

Prelude(c) ==
    << Fixed("imports"),
       Fixed("def main():"),
       Fixed("default values"),
       Line("sigint_handler_registered =", <<>>,
            <<IF c.enableSigIntHandler THEN "True" ELSE "False">>, <<>>),
       Fixed("def signal_handler(sig, frame):"),
       IF c.enableSigIntHandler THEN RegisterSigIntLine
                                ELSE Fixed("# SIGINT signal handler is disabled"),
       Fixed("def save_current_results():"),
       Fixed("async def call_openai_api_async"),
       Fixed("async def process_item_async"),
       Fixed("async def generate_content_async"),
       Fixed("def generate_content"),
       Fixed("def load_dataset_with_config") >>

\* compiler.go:423-429
Epilogue == << Fixed("# autosave comment"), Fixed("if __name__ == '__main__': main()") >>

(***************************************************************************)
(* Helpers of the statement compilers.                                     *)
(***************************************************************************)
\* compiler.go:807-814
convertOperatorToPython(op) == IF op = "=" THEN "==" ELSE op

\* compiler.go:826-833: a string is quoted, anything else printed with %v
formatPythonValue(value) == IF value.int THEN <<"", value.text>> ELSE Quoted(value.text)

\* the statement compilers thread the builder and the Compiler's fields
Emit(st, lines) == [st EXCEPT !.out = st.out \o lines]

\* compiler.go:536-543 and :688-695 (the two switches are the same text)
UsingLines(type, value) ==
    IF type = "MODEL" THEN <<Line("model =", <<>>, <<value>>, <<>>)>>
    ELSE IF type = "KEY" THEN <<Line("api_key =", <<>>, <<value>>, <<>>)>>
    ELSE IF type = "URL" THEN <<Line("api_url =", <<>>, <<value>>, <<>>)>>
    ELSE <<>>

RECURSIVE UsingBlockLines(_)
UsingBlockLines(stmts) ==
    IF stmts = <<>> THEN <<>>
    ELSE UsingLines(Head(stmts).Type, Head(stmts).Value) \o UsingBlockLines(Tail(stmts))

\* compiler.go:605-634 and :773-802 (the two cases are the same text)
PromptLines(n, dbg) ==
    <<Line("# prompt template", <<>>, <<n.Name>>, <<>>)>> \o
    (IF n.PromptType = "system"
     THEN <<Line("system_prompts[] =", <<>>, <<n.Name>> \o n.Template, <<>>)>> \o
          (IF dbg THEN <<Fixed("if debug:"),
                         Line("print(system prompt defined)", <<>>, <<n.Name>>, <<>>)>>
                  ELSE <<>>)
     ELSE <<Line("prompt_templates[] = {", <<>>, <<n.Name>>, <<>>),
            Line("'template':", <<>>, n.Template, <<>>),
            Line("'fields':", <<>>, n.Fields, <<>>),
            Fixed("}")>> \o
          (IF dbg THEN <<Fixed("if debug:"),
                         Line("print(prompt template defined)", <<>>, <<n.Name>>, <<>>)>>
                  ELSE <<>>))

\* modelStr and promptStr of a GENERATE (compiler.go:640-649, :748-757)
GenerateArgs(n) ==
    <<n.SourceField, n.TargetField>> \o
    (IF n.Model # "" THEN Quoted(n.Model) ELSE PyNone) \o
    (IF Len(n.PromptTemplates) > 0 THEN Quoted(n.PromptTemplates[1]) ELSE PyNone)

\* compiler.go:761, "<var> = generate_content(<var>, ...)"
GenerateCallLine(dsVar, n) ==
    Line("= generate_content(", <<dsVar, dsVar>>, GenerateArgs(n), <<n.Temperature, n.Tokens>>)

\* compiler.go:658, "last_dataset = generate_content(last_dataset, ...)"
GenerateLastLine(n) ==
    Line("last_dataset = generate_content(last_dataset,", <<>>, GenerateArgs(n),
         <<n.Temperature, n.Tokens>>)

IsGenerate(stmt) == stmt.type = "GenerateStatement"
IsSave(stmt) == stmt.type = "SaveStatement"
IsSetup(stmt) == ~IsGenerate(stmt) /\ ~IsSave(stmt)

(***************************************************************************)
(* Compiler.compileBlockStatement (compiler.go:667-804): a statement       *)
(* inside a FROM block.  A node type without a case emits nothing.         *)
(***************************************************************************)
RECURSIVE compileBlockStatement(_, _, _)
RECURSIVE compileBlockStatements(_, _, _)

compileBlockStatements(st, stmts, datasetVar) ==
    IF stmts = <<>> THEN st
    ELSE compileBlockStatements(compileBlockStatement(st, Head(stmts), datasetVar),
                                Tail(stmts), datasetVar)

RECURSIVE FilterBlockLines(_, _, _)
\* compiler.go:563-568 (dsVar = <<>>: the global filters) and :681-686
FilterBlockLines(field, conds, dsVar) ==
    IF conds = <<>> THEN <<>>
    ELSE <<Line("filters['.'] =", dsVar,
                <<field, Head(conds).Field, convertOperatorToPython(Head(conds).Operator)>>
                    \o formatPythonValue(Head(conds).Value), <<>>)>>
         \o FilterBlockLines(field, Tail(conds), dsVar)

compileBlockStatement(st, n, datasetVar) ==
    CASE n.type = "FieldsStatement" ->
            Emit(st, <<Line("fields_ =", <<datasetVar>>, n.Fields, <<>>)>>)
      [] n.type = "FilterStatement" ->
            Emit(st, <<Line("filters_[] =", <<datasetVar>>,
                            <<n.Field, convertOperatorToPython(n.Operator)>>
                                \o formatPythonValue(n.Value), <<>>)>>)
      [] n.type = "FilterBlock" ->
            Emit(st, FilterBlockLines(n.Field, n.Conditions, <<datasetVar>>))
      [] n.type = "UsingStatement" -> Emit(st, UsingLines(n.Type, n.Value))
      [] n.type = "UsingBlock" -> Emit(st, UsingBlockLines(n.Statements))
      [] n.type = "WithStatement" ->
            LET s1 == Emit(st, IF n.Type = "CONCURRENCY"
                                THEN <<Line("concurrency =", <<>>, <<>>, <<n.Value>>)>>
                                ELSE IF n.Type = "STREAM" THEN <<Fixed("stream = True")>>
                                ELSE <<>>)
            IN IF n.Block = Nil THEN s1
               ELSE LET others == SelectSeq(n.Block.Statements, LAMBDA x : ~IsGenerate(x))
                        gens == SelectSeq(n.Block.Statements, IsGenerate)
                    IN compileBlockStatements(
                           compileBlockStatements(s1, others, datasetVar), gens, datasetVar)
      [] n.type = "GenerateStatement" ->
            Emit(st, <<Line("# generate field", <<>>, <<n.TargetField, n.SourceField>>, <<>>),
                       Fixed("# run async generation"),
                       GenerateCallLine(datasetVar, n),
                       Line("loaded_datasets[] =", <<datasetVar, datasetVar>>, <<>>, <<>>)>>)
      [] n.type = "SaveStatement" ->
            Emit(st, <<Fixed("# save dataset to file"),
                       Line("output_file =", <<>>, <<n.Filename>>, <<>>),
                       Fixed("was_saved = True"),
                       SaveCallLine>>)
      [] n.type = "PromptStatement" -> Emit(st, PromptLines(n, st.debug))
      [] OTHER -> st

(***************************************************************************)
(* Compiler.compileStatement (compiler.go:435-664): a top-level statement. *)
(***************************************************************************)
RECURSIVE compileStatement(_, _)
RECURSIVE compileStatements(_, _)

compileStatements(st, stmts) ==
    IF stmts = <<>> THEN st
    ELSE compileStatements(compileStatement(st, Head(stmts)), Tail(stmts))

RECURSIVE MergeOperands(_)
\* compiler.go:583-589: each operand is again prefixed and sanitized
MergeOperands(names) ==
    IF names = <<>> THEN <<>> ELSE <<DatasetVar(Head(names))>> \o MergeOperands(Tail(names))

\* faulty variant of compileFrom: the dataset is loaded first and the block's statements
\* are compiled in their source order
compileFromSourceOrder(st, n) ==
    LET datasetVar == DatasetVar(n.Dataset)
        s0 == [st EXCEPT !.datasets = st.datasets \cup {datasetVar}]
        s1 == Emit(s0, <<Line("# load dataset", <<>>, <<n.Dataset>>, <<>>),
                         Line("fields_ = []", <<datasetVar>>, <<>>, <<>>),
                         Line("filters_ = {}", <<datasetVar>>, <<>>, <<>>),
                         Fixed("# load dataset with configured parameters"),
                         LoadLine(datasetVar, n.Dataset),
                         Line("loaded_datasets[] =", <<datasetVar, datasetVar>>, <<>>, <<>>)>>)
    IN compileBlockStatements(s1, IF n.Block = Nil THEN <<>> ELSE n.Block.Statements,
                              datasetVar)

\* compiler.go:439-498
compileFrom(st, n) ==
    LET datasetVar == DatasetVar(n.Dataset)
        s0 == [st EXCEPT !.datasets = st.datasets \cup {datasetVar}]
        s1 == Emit(s0, <<Line("# load dataset", <<>>, <<n.Dataset>>, <<>>),
                         Line("fields_ = []", <<datasetVar>>, <<>>, <<>>),
                         Line("filters_ = {}", <<datasetVar>>, <<>>, <<>>)>>)
        stmts == IF n.Block = Nil THEN <<>> ELSE n.Block.Statements
        setupInstructions == SelectSeq(stmts, IsSetup)
        generateStatements == SelectSeq(stmts, IsGenerate)
        saveStatements == SelectSeq(stmts, IsSave)
        s2 == compileBlockStatements(s1, setupInstructions, datasetVar)
        s3 == Emit(s2, <<Fixed("# load dataset with configured parameters"),
                         LoadLine(datasetVar, n.Dataset),
                         Line("loaded_datasets[] =", <<datasetVar, datasetVar>>, <<>>, <<>>)>>)
        s4 == IF Len(generateStatements) > 0
              THEN compileBlockStatements(Emit(s3, <<Fixed("# generate new fields")>>),
                                          generateStatements, datasetVar)
              ELSE s3
    IN IF Len(saveStatements) > 0
       THEN compileBlockStatements(Emit(s4, <<Fixed("# save results")>>),
                                   saveStatements, datasetVar)
       ELSE s4

\* compiler.go:514-530
compilePragma(st, n) ==
    IF n.Type = "AUTOSAVE"
    THEN Emit([st EXCEPT !.enableSigIntHandler = TRUE],
              <<Fixed("# PRAGMA AUTOSAVE"),
                Fixed("# register the signal handler"),
                Fixed("sigint_handler_registered = True"),
                RegisterSigIntLine>>)
    ELSE IF n.Type = "CONCURRENCY"
    THEN Emit(st, <<Fixed("# PRAGMA CONCURRENCY"),
                    Line("concurrency =", <<>>, <<>>, <<n.Value>>)>>)
    ELSE st

\* compiler.go:575-594
compileMerge(st, n) ==
    LET mergedVar == MergedVar(Cardinality(st.datasets) + 1)
    IN Emit([st EXCEPT !.datasets = st.datasets \cup {mergedVar}],
            <<Fixed("# merge datasets"),
              Line("= concatenate_datasets([", <<mergedVar>> \o MergeOperands(n.Datasets),
                   <<>>, <<>>),
              Line("loaded_datasets[] =", <<mergedVar, mergedVar>>, <<>>, <<>>)>>)

compileStatement(st, n) ==
    CASE n.type = "FromStatement" -> compileFrom(st, n)
      [] n.type = "WithStatement" ->
            LET s1 == Emit(st, IF n.Type = "CONCURRENCY"
                                THEN <<Line("concurrency =", <<>>, <<>>, <<n.Value>>)>>
                                ELSE IF n.Type = "STREAM" THEN <<Fixed("stream = True")>>
                                ELSE <<>>)
            IN IF n.Block = Nil THEN s1 ELSE compileStatements(s1, n.Block.Statements)
      [] n.type = "PragmaStatement" -> compilePragma(st, n)
      [] n.type = "FieldsStatement" -> Emit(st, <<Line("fields =", <<>>, n.Fields, <<>>)>>)
      [] n.type = "UsingStatement" -> Emit(st, UsingLines(n.Type, n.Value))
      [] n.type = "UsingBlock" -> Emit(st, UsingBlockLines(n.Statements))
      [] n.type = "FilterStatement" ->
            Emit(st, <<Line("filters[] =", <<>>,
                            <<n.Field, convertOperatorToPython(n.Operator)>>
                                \o formatPythonValue(n.Value), <<>>)>>)
      [] n.type = "FilterBlock" -> Emit(st, FilterBlockLines(n.Field, n.Conditions, <<>>))
      [] n.type = "Block" -> compileStatements(st, n.Statements)
      [] n.type = "DatasetMergeStatement" -> compileMerge(st, n)
      [] n.type = "SaveStatement" ->
            Emit(st, <<Fixed("# save to file"),
                       Line("output_file =", <<>>, <<n.Filename>>, <<>>),
                       Fixed("was_saved = True"),
                       Fixed("# save the dataset"),
                       SaveCallLine>>)
      [] n.type = "PromptStatement" -> Emit(st, PromptLines(n, st.debug))
      [] n.type = "GenerateStatement" ->
            Emit(st, <<Line("# generate field", <<>>, <<n.TargetField, n.SourceField>>, <<>>),
                       Fixed("# select the last loaded dataset"),
                       Fixed("last_dataset_name = list(loaded_datasets.keys())[-1]"),
                       Fixed("last_dataset = loaded_datasets[last_dataset_name]"),
                       Fixed("# run async generation"),
                       GenerateLastLine(n),
                       Fixed("loaded_datasets[last_dataset_name] = last_dataset")>>)
      [] OTHER -> st

(***************************************************************************)
(* NewCompiler (compiler.go:18-38), SetDebug, Compile (compiler.go:51-432) *)
(***************************************************************************)
\* faulty variant of NewCompiler: the fields of the compiler created before are kept
NewCompilerKeepsState(p) ==
    IF compiler = NoCompiler
    THEN [program |-> p, datasets |-> {}, debug |-> FALSE, enableSigIntHandler |-> FALSE]
    ELSE [compiler EXCEPT !.program = p]

NewCompiler(p) ==
    [program |-> p, datasets |-> {}, debug |-> FALSE, enableSigIntHandler |-> FALSE]

SetDebug(c, d) == [c EXCEPT !.debug = d]

\* The builder and the Compiler's fields after the statement loop.
CompileRun(c) ==
    compileStatements([out |-> Prelude(c), datasets |-> c.datasets, debug |-> c.debug,
                       enableSigIntHandler |-> c.enableSigIntHandler],
                      c.program.Statements)

\* Compile(): the text it returns (builder.String()) and the Compiler object after it
Compile(c) ==
    LET run == CompileRun(c)
    IN [text |-> run.out \o Epilogue,
        after |-> [c EXCEPT !.datasets = run.datasets,
                            !.enableSigIntHandler = run.enableSigIntHandler]]

CompileText(c) == Compile(c).text

(***************************************************************************)
(* The programs compiled.                                                  *)
(***************************************************************************)
\* parser.go:536-537: the defaults of a GENERATE, temperature in tenths
DefaultTemperature == 7
DefaultTokens == 1024

GenQA == GenerateStatement("question", "answer", "", DefaultTemperature, DefaultTokens, <<>>)
GenAS == GenerateStatement("answer", "summary", "gpt", 2, 64, <<"p1", "p2">>)
Autosave == PragmaStatement("AUTOSAVE", 1)

\* statements of a FROM block
BlockStmts ==
    { FieldsStatement(<<"question", "answers">>),
      GenQA, GenAS,
      SaveStatement("output.json"),
      WithStatement("CONCURRENCY", 2, Block(<<GenQA>>)),
      PromptStatement("p1", <<"Answer {question}">>, <<"question">>, "user"),
      Autosave }

\* top-level statements
TopStmts ==
    { FromStatement("squad", Nil),
      FromStatement("a/b", Block(<<GenQA, FieldsStatement(<<"question">>)>>)),
      Autosave,
      DatasetMergeStatement(<<"squad", "a/b">>),
      SaveStatement("output.json"),
      GenQA,
      WithStatement("STREAM", 1, Block(<<Autosave, UsingStatement("MODEL", "gpt")>>)) }

SeqsUpTo(S, n) == UNION { [1..k -> S] : k \in 0..n }

\* one FROM block of every shape, alone or after another top-level statement
BlockPrograms ==
    { Program(pre \o <<FromStatement("a-b", Block(b))>>) :
        pre \in {<<>>, <<Autosave>>},
        b \in SeqsUpTo(BlockStmts, MaxBlock) }

\* every sequence of top-level statements
TopPrograms == { Program(s) : s \in SeqsUpTo(TopStmts, MaxTop) }

\* the README's Simple Example as Parse returns it and as a FROM with a block; a
\* FROM nested in the block of a FROM, which the parser accepts like any statement
ScenarioAProgram ==
    Program(<<FromStatement("squad", Nil),
              FieldsStatement(<<"question", "answers">>),
              SaveStatement("output.json")>>)
ScenarioABlockProgram ==
    Program(<<FromStatement("squad", Block(<<FieldsStatement(<<"question", "answers">>),
                                             SaveStatement("output.json")>>))>>)
NestedFromProgram ==
    Program(<<FromStatement("squad",
                  Block(<<FromStatement("a/b", Block(<<SaveStatement("output.json")>>))>>))>>)

\* a FROM with a block inside the block of a top-level WITH
WithFromProgram ==
    Program(<<WithStatement("CONCURRENCY", 2,
                  Block(<<FromStatement("squad",
                              Block(<<GenQA, FieldsStatement(<<"question">>)>>))>>))>>)

\* two datasets whose names differ in a replaced character only
SimilarNamesProgram == Program(<<FromStatement("a/b", Nil), FromStatement("a-b", Nil)>>)

\* README "Example with Merging Datasets" (part_004:287-298): the operands of
\* MERGE are written as the variables of the two FROM statements before it
MergeVarsProgram ==
    Program(<<FromStatement("squad", Nil), FromStatement("a/b", Nil),
              DatasetMergeStatement(<<"ds_squad", "ds_a_b">>)>>)

Programs ==
    BlockPrograms \cup TopPrograms
        \cup {ScenarioAProgram, ScenarioABlockProgram, NestedFromProgram, WithFromProgram,
              SimilarNamesProgram, MergeVarsProgram}

(***************************************************************************)
(* Compiling: the DSL facade creates a new Compiler for every call         *)
(* (dsl.go:44-51) and gives it the debug flag of the DSL, which SetDebug   *)
(* changes between calls; a caller holding a Compiler may call Compile     *)
(* again.                                                                  *)
(***************************************************************************)
\* the debug flag alters only the code of a PROMPT (compiler.go:605-634, :773-802)
HasPrompt(p) ==
    \E i \in DOMAIN p.Statements :
        /\ p.Statements[i].type = "FromStatement"
        /\ p.Statements[i].Block # Nil
        /\ \E k \in DOMAIN p.Statements[i].Block.Statements :
              p.Statements[i].Block.Statements[k].type = "PromptStatement"

\* dsl.go:19-25: NewDSL leaves debug false
InitCompile ==
    /\ program \in Programs
    /\ debug = FALSE
    /\ compiler = NoCompiler /\ compiled = FALSE
    /\ outputs = <<>>
    /\ input = <<>> /\ tokens = <<>> /\ position = 0 /\ stack = <<>>
    /\ dslpc = "done" /\ parsed = Nil /\ result = Nil
    /\ ExecIdle /\ PyIdle /\ PipeIdle

\* the size of a program: its top-level statements and those of their blocks
RECURSIVE BlockSizes(_)
BlockSizes(stmts) ==
    IF stmts = <<>> THEN 0
    ELSE (IF Head(stmts).type \in {"FromStatement", "WithStatement"} /\ Head(stmts).Block # Nil
          THEN Len(Head(stmts).Block.Statements) ELSE 0) + BlockSizes(Tail(stmts))
ProgramSize(p) == Len(p.Statements) + BlockSizes(p.Statements)

\* the setters of the facade and of the Compiler and NewCompiler are called one by
\* one on the programs of at most MaxAPIStatements statements; every program is
\* compiled through the facade
MaxAPIStatements == 2
APIProgram(p) == ProgramSize(p) <= MaxAPIStatements

\* the fields of a Compiler that Compile reads and the setters and Compile write
CompilerState(c) ==
    [datasets |-> c.datasets, debug |-> c.debug, sig |-> c.enableSigIntHandler]

\* history entry of one Compile call on Compiler c; fresh: the first call on c;
\* facade: the call is the one of ParseAndCompile
CompileOutput(c, fresh, facade, done) ==
    [fresh |-> fresh, facade |-> facade, text |-> done.text,
     found |-> CompilerState(c), left |-> CompilerState(done.after)]

\* dsl.go:28-30: DSL.SetDebug(debug), between two calls of ParseAndCompile
DSLSetDebug ==
    /\ Len(outputs) < MaxCompiles
    /\ APIProgram(program)
    /\ \E d \in BOOLEAN :
          /\ d # debug
          /\ debug' = d
    /\ UNCHANGED <<program, compiler, compiled, outputs>>
    /\ UNCHANGED <<parseVars, execVars, pyVars, pipeVars>>

\* dsl.go:44-51: NewCompiler(program), SetDebug(d.debug), Compile()
DSLCompile ==
    /\ Len(outputs) < MaxCompiles
    /\ LET c == SetDebug(NewCompiler(program), debug)
           done == Compile(c)
       IN /\ compiler' = done.after
          /\ compiled' = TRUE
          /\ outputs' = Append(outputs, CompileOutput(c, TRUE, TRUE, done))
    /\ UNCHANGED <<program, debug>>
    /\ UNCHANGED <<parseVars, execVars, pyVars, pipeVars>>

\* compiler.go:18-38: NewCompiler(program), the caller keeps the Compiler
NewCompilerCall ==
    /\ Len(outputs) < MaxCompiles
    /\ APIProgram(program)
    /\ compiler # NewCompiler(program) \/ compiled
    /\ compiler' = NewCompiler(program)
    /\ compiled' = FALSE
    /\ UNCHANGED <<program, debug, outputs>>
    /\ UNCHANGED <<parseVars, execVars, pyVars, pipeVars>>

\* compiler.go:41-43: SetDebug(debug) on the Compiler held; as in InitCompile the
\* flag is drawn where the program has a PROMPT, whose code alone reads it
SetDebugCall ==
    /\ Len(outputs) < MaxCompiles
    /\ APIProgram(program)
    /\ compiler # NoCompiler
    /\ \E d \in (IF HasPrompt(program) THEN BOOLEAN ELSE {FALSE}) :
          /\ d # compiler.debug
          /\ compiler' = SetDebug(compiler, d)
    /\ UNCHANGED <<program, debug, compiled, outputs>>
    /\ UNCHANGED <<parseVars, execVars, pyVars, pipeVars>>

\* compiler.go:46-48: EnableSigIntHandler(enable) on the Compiler held
EnableSigIntHandler ==
    /\ Len(outputs) < MaxCompiles
    /\ compiler # NoCompiler
    /\ \E enable \in BOOLEAN :
          /\ enable # compiler.enableSigIntHandler
          /\ compiler' = [compiler EXCEPT !.enableSigIntHandler = enable]
    /\ UNCHANGED <<program, debug, compiled, outputs>>
    /\ UNCHANGED <<parseVars, execVars, pyVars, pipeVars>>

\* compiler.go:51-432: Compile() on the Compiler held, compiled before or not
CompilerCompile ==
    /\ Len(outputs) < MaxCompiles
    /\ compiler # NoCompiler
    /\ LET done == Compile(compiler)
       IN /\ compiler' = done.after
          /\ compiled' = TRUE
          /\ outputs' = Append(outputs, CompileOutput(compiler, ~compiled, FALSE, done))
    /\ UNCHANGED <<program, debug>>
    /\ UNCHANGED <<parseVars, execVars, pyVars, pipeVars>>

NextCompile ==
    DSLSetDebug \/ DSLCompile \/ NewCompilerCall \/ SetDebugCall \/ EnableSigIntHandler \/ CompilerCompile

SpecCompile == InitCompile /\ [][NextCompile]_vars

(***************************************************************************)
(* The Parser (parser.go).  Strings being atomic, the lexical functions    *)
(* are tables over the words the model's inputs are made of.               *)
(***************************************************************************)
IntLiterals == {"0", "2", "4", "8", "64"}

\* strconv.Atoi: whether it accepts the token, and its value
AtoiOk(t) == t \in IntLiterals
Atoi(t) == CASE t = "0" -> 0 [] t = "2" -> 2 [] t = "4" -> 4 [] t = "8" -> 8 [] t = "64" -> 64

\* strconv.ParseFloat, in tenths
ParseFloatOk(t) == AtoiOk(t) \/ t \in {"0.2", "0.7"}
ParseFloat(t) == IF AtoiOk(t) THEN 10 * Atoi(t) ELSE IF t = "0.2" THEN 2 ELSE 7

\* parser.go:779-785
stripQuotes(s) ==
    CASE s = "\"question\"" -> "question"
      [] s = "\"answers\"" -> "answers"
      [] s = "\"output.json\"" -> "output.json"
      [] s = "\"You are\"" -> "You are"
      [] OTHER -> s

IsQuotedToken(s) == stripQuotes(s) # s

\* a quoted token without its first, or without its last, character
DropFirstChar(s) ==
    CASE s = "\"question\"" -> "question\""
      [] s = "\"answers\"" -> "answers\""
      [] s = "\"output.json\"" -> "output.json\""
      [] s = "\"You are\"" -> "You are\""
DropLastChar(s) ==
    CASE s = "\"question\"" -> "\"question"
      [] s = "\"answers\"" -> "\"answers"
      [] s = "\"output.json\"" -> "\"output.json"
      [] s = "\"You are\"" -> "\"You are"

\* parser.go:670-671 and :683-684: stripQuotes(strings.Join(templateTokens, " ")),
\* as the pieces between the single spaces
JoinAndStrip(toks) ==
    IF Len(toks) = 0 THEN <<>>
    ELSE IF Len(toks) = 1 THEN <<stripQuotes(toks[1])>>
    ELSE IF IsQuotedToken(toks[1]) /\ IsQuotedToken(toks[Len(toks)])
         THEN <<DropFirstChar(toks[1])>> \o SubSeq(toks, 2, Len(toks) - 1)
              \o <<DropLastChar(toks[Len(toks)])>>
         ELSE toks

\* parser.go:47-54 and :773-776
isOperator(t) == t \in {"=", ">", "<", ">=", "<=", "!="}

\* a FILTER value: the integer when Atoi accepts the token, else the unquoted string
FilterValue(valueStr) ==
    IF AtoiOk(valueStr) THEN [int |-> TRUE, text |-> valueStr]
    ELSE [int |-> FALSE, text |-> stripQuotes(valueStr)]

RECURSIVE StripComments(_, _)
\* parser.go:67-68: "#" and what follows it on its line are removed
StripComments(words, inComment) ==
    IF words = <<>> THEN <<>>
    ELSE IF Head(words) = "\n" THEN StripComments(Tail(words), FALSE)
    ELSE IF inComment \/ Head(words) = "#" THEN StripComments(Tail(words), TRUE)
    ELSE <<Head(words)>> \o StripComments(Tail(words), FALSE)

\* a word no alternative of the token pattern matches is skipped
Unmatched == {"@"}

\* parser.go:65-109: the tokens, or the error when the pattern matches nothing
Tokenize(words) ==
    LET matches == SelectSeq(StripComments(words, FALSE), LAMBDA w : w \notin Unmatched)
    IN IF matches = <<>>
       THEN [err |-> "tokenization error: no recognizable tokens found", tokens |-> <<>>]
       ELSE [err |-> "", tokens |-> matches]

\* parser.go:762-764
isEOF(pos) == pos >= Len(tokens)

\* parser.go:744-749
peekToken(pos) == IF isEOF(pos) THEN "" ELSE tokens[pos + 1]

\* faulty variant of nextToken: the cursor moves also at the end of the tokens
nextTokenUnchecked(pos) == pos + 1

\* parser.go:752-759: the cursor after nextToken(); the token it returns is
\* peekToken of the cursor before
nextToken(pos) == IF isEOF(pos) THEN pos ELSE pos + 1

(***************************************************************************)
(* What one step of a parse function does: fail, return a node to the      *)
(* statement loop that called it (after leaving "pops" frames), call       *)
(* (push the frames of a loop it enters), or go round its loop once more.  *)
(***************************************************************************)
Err(msg, pos) == [kind |-> "err", msg |-> msg, pos |-> pos]
Ret(node, pos, pops) == [kind |-> "ret", node |-> node, pos |-> pos, pops |-> pops]
Call(frames, pos) == [kind |-> "call", frames |-> frames, pos |-> pos]
Loop(frame, pos) == [kind |-> "loop", frame |-> frame, pos |-> pos]

Top == stack[Len(stack)]
BlockFrame == [fn |-> "parseBlock", stmts |-> <<>>]

\* faulty variant of ParseFailure: the statements parsed so far are returned with the error
ParseFailurePartial(msg) ==
    [program |-> Program(IF stack = <<>> THEN <<>> ELSE stack[1].stmts), err |-> msg]

\* parser.go:113-115 and :123-125: return nil, err
ParseFailure(msg) == [program |-> Nil, err |-> msg]

Apply(o) ==
    /\ position' = o.pos
    /\ tokens' = tokens
    /\ CASE o.kind = "err" ->
              /\ stack' = <<>>
              /\ parsed' = ParseFailure(o.msg)
              /\ dslpc' = "parsed"
         [] o.kind = "ret" ->
              /\ stack' = [SubSeq(stack, 1, Len(stack) - o.pops)
                             EXCEPT ![Len(stack) - o.pops].stmts = Append(@, o.node)]
              /\ UNCHANGED <<parsed, dslpc>>
         [] o.kind = "call" ->
              /\ stack' = stack \o o.frames
              /\ UNCHANGED <<parsed, dslpc>>
         [] o.kind = "loop" ->
              /\ stack' = [stack EXCEPT ![Len(stack)] = o.frame]
              /\ UNCHANGED <<parsed, dslpc>>
    /\ UNCHANGED <<input, result, compVars, execVars, pyVars, pipeVars>>

InLoopOf(fn) == dslpc = "parsing" /\ stack # <<>> /\ Top.fn = fn

\* parser.go:121 and :490-495: the loop of Parse or parseBlock calls parseStatement
StatementExpected ==
    /\ dslpc = "parsing" /\ stack # <<>>
    /\ Top.fn \in {"Parse", "parseBlock"}
    /\ ~isEOF(position)
    /\ Top.fn = "parseBlock" => peekToken(position) # "}"

\* parser.go:179-201
parseFromStatement(pos) ==
    LET p1 == nextToken(pos)
        dataset == peekToken(p1)
        p2 == nextToken(p1)
    IN IF isEOF(p1) THEN Err("expected dataset name after FROM", p1)
       ELSE IF peekToken(p2) = "{"
            THEN Call(<<[fn |-> "parseFromStatement", Dataset |-> dataset], BlockFrame>>,
                      nextToken(p2))
            ELSE Ret(FromStatement(dataset, Nil), p2, 0)

\* parser.go:204-245
parseWithStatement(pos) ==
    LET p1 == nextToken(pos)
        withType == peekToken(p1)
        p2 == nextToken(p1)
        p3 == IF withType = "CONCURRENCY" THEN nextToken(p2) ELSE p2
        value == IF withType = "CONCURRENCY" THEN Atoi(peekToken(p2)) ELSE 1
    IN IF isEOF(p1) THEN Err("expected setting type after WITH", p1)
       ELSE IF withType = "CONCURRENCY" /\ isEOF(p2)
            THEN Err("expected value after WITH CONCURRENCY", p2)
       ELSE IF withType = "CONCURRENCY" /\ ~AtoiOk(peekToken(p2))
            THEN Err("incorrect concurrency value", p3)
       ELSE IF withType \notin {"CONCURRENCY", "STREAM"} THEN Err("unknown WITH type", p2)
       ELSE IF peekToken(p3) = "{"
            THEN Call(<<[fn |-> "parseWithStatement", Type |-> withType, Value |-> value],
                        BlockFrame>>, nextToken(p3))
            ELSE Ret(WithStatement(withType, value, Nil), p3, 0)

\* faulty variant of parseBlock: the end of the tokens ends the block like "}"
parseBlockLenient(pos) ==
    LET owner == stack[Len(stack) - 1]
        block == Block(Top.stmts)
    IN Ret(IF owner.fn = "parseFromStatement"
           THEN FromStatement(owner.Dataset, block)
           ELSE WithStatement(owner.Type, owner.Value, block),
           nextToken(pos), 2)

\* parser.go:483-506, the loop test and the return; the node of the FROM or WITH
\* that called parseBlock is built at once (parser.go:197-200, :240-244)
parseBlock(pos) ==
    LET owner == stack[Len(stack) - 1]
        block == Block(Top.stmts)
    IN IF peekToken(pos) = "}"
       THEN Ret(IF owner.fn = "parseFromStatement"
                THEN FromStatement(owner.Dataset, block)
                ELSE WithStatement(owner.Type, owner.Value, block),
                nextToken(pos), 2)
       ELSE Err("expected closing brace }", pos)

\* the optional separator after a list element or a parameter
SkipIf(sep, pos) == IF peekToken(pos) = sep THEN nextToken(pos) ELSE pos

\* parser.go:248-280, up to the list loop
parseFieldsStatement(pos) ==
    LET p1 == nextToken(pos)
    IN IF peekToken(p1) = "["
       THEN Call(<<[fn |-> "parseFieldsStatement", fields |-> <<>>]>>, nextToken(p1))
       ELSE Ret(FieldsStatement(<<stripQuotes(peekToken(p1))>>), nextToken(p1), 0)

\* faulty variant of FieldsListLoop: the end of the tokens is not looked for
FieldsListLoopNoEOF(pos) ==
    IF peekToken(pos) = "]" THEN Ret(FieldsStatement(Top.fields), nextToken(pos), 1)
    ELSE Loop([Top EXCEPT !.fields = Append(@, stripQuotes(peekToken(pos)))],
              SkipIf(",", nextToken(pos)))

\* parser.go:257-270
FieldsListLoop(pos) ==
    IF peekToken(pos) = "]" THEN Ret(FieldsStatement(Top.fields), nextToken(pos), 1)
    ELSE IF isEOF(pos) THEN Err("expected closing brace ]", pos)
    ELSE Loop([Top EXCEPT !.fields = Append(@, stripQuotes(peekToken(pos)))],
              SkipIf(",", nextToken(pos)))

\* parser.go:283-330, up to the block loop
parseUsingStatement(pos) ==
    LET p1 == nextToken(pos)
        usingType == peekToken(p1)
        p2 == nextToken(p1)
    IN IF peekToken(p1) = "{"
       THEN Call(<<[fn |-> "parseUsingStatement", stmts |-> <<>>]>>, nextToken(p1))
       ELSE IF isEOF(p2) THEN Err("expected value after USING type", p2)
       ELSE Ret(UsingStatement(usingType, stripQuotes(peekToken(p2))), nextToken(p2), 0)

\* parser.go:294-314
UsingBlockLoop(pos) ==
    LET usingType == peekToken(pos)
        p1 == nextToken(pos)
    IN IF peekToken(pos) = "}" THEN Ret(UsingBlock(Top.stmts), nextToken(pos), 1)
       ELSE IF isEOF(pos) THEN Err("expected closing brace }", pos)
       ELSE IF usingType \notin {"MODEL", "KEY", "URL"}
            THEN Err("expected USING type (MODEL, KEY, URL)", p1)
       ELSE Loop([Top EXCEPT !.stmts =
                     Append(@, UsingStatement(usingType, stripQuotes(peekToken(p1))))],
                 nextToken(p1))

\* parser.go:362-383 and :395-416: operator and value of a condition on field
FilterCondition(field, pos) ==
    LET operator == peekToken(pos)
        p1 == nextToken(pos)
    IN IF ~isOperator(operator) THEN Err("expected operator (=, >, <, >=, <=, !=)", p1)
       ELSE IF isEOF(p1) THEN Err("expected value after operator", p1)
       ELSE Ret(FilterStatement(field, operator, FilterValue(peekToken(p1))),
                nextToken(p1), 0)

\* parser.go:333-418, up to the block loop
parseFilterStatement(pos) ==
    LET p1 == nextToken(pos)
        field == peekToken(p1)
        p2 == nextToken(p1)
    IN IF isEOF(p1) THEN Err("expected field after FILTER", p1)
       ELSE IF peekToken(p2) = "{"
            THEN Call(<<[fn |-> "parseFilterStatement", field |-> field, conds |-> <<>>]>>,
                      nextToken(p2))
            ELSE FilterCondition(field, p2)

\* parser.go:351-392
FilterBlockLoop(pos) ==
    LET subField == peekToken(pos)
        p1 == nextToken(pos)
        cond == FilterCondition(subField, p1)
    IN IF peekToken(pos) = "}"
       THEN Ret(FilterBlock(Top.field, Top.conds), nextToken(pos), 1)
       ELSE IF isEOF(pos) THEN Err("expected closing brace }", pos)
       ELSE IF isEOF(p1) THEN Err("expected operator after field", p1)
       ELSE IF cond.kind = "err" THEN cond
       ELSE Loop([Top EXCEPT !.conds = Append(@, cond.node)], SkipIf(";", cond.pos))

\* parser.go:458-464
MergeResult(datasets, pos, pops) ==
    IF Len(datasets) < 2 THEN Err("at least two datasets are required for MERGE", pos)
    ELSE Ret(DatasetMergeStatement(datasets), pos, pops)

\* parser.go:421-465, up to the list loop
parseMergeStatement(pos) ==
    LET p1 == nextToken(pos)
        dataset1 == peekToken(p1)
        p2 == nextToken(p1)
        p3 == nextToken(p2)
    IN IF peekToken(p1) = "["
       THEN Call(<<[fn |-> "parseMergeStatement", datasets |-> <<>>]>>, nextToken(p1))
       ELSE IF peekToken(p2) = ","
            THEN MergeResult(<<stripQuotes(dataset1), stripQuotes(peekToken(p3))>>,
                             nextToken(p3), 0)
            ELSE Err("expected comma between datasets in MERGE", p2)

\* parser.go:430-443 and :458-464
MergeListLoop(pos) ==
    IF peekToken(pos) = "]" THEN MergeResult(Top.datasets, nextToken(pos), 1)
    ELSE IF isEOF(pos) THEN Err("expected closing brace ]", pos)
    ELSE Loop([Top EXCEPT !.datasets = Append(@, stripQuotes(peekToken(pos)))],
              SkipIf(",", nextToken(pos)))

\* parser.go:468-480
parseSaveStatement(pos) ==
    LET p1 == nextToken(pos)
    IN IF isEOF(p1) THEN Err("expected filename after SAVE", p1)
       ELSE Ret(SaveStatement(stripQuotes(peekToken(p1))), nextToken(p1), 0)

\* faulty variant of parseGenerateStatement: Temperature and Tokens start at zero
parseGenerateStatementZero(pos) ==
    LET p1 == nextToken(pos)
        sourceField == peekToken(p1)
        p2 == nextToken(p1)
        p3 == nextToken(p2)
        targetField == peekToken(p3)
        p4 == nextToken(p3)
        generateStmt == GenerateStatement(stripQuotes(sourceField), stripQuotes(targetField),
                                          "", 0, 0, <<>>)
    IN IF isEOF(p1) THEN Err("expected source field after GENERATE", p1)
       ELSE IF isEOF(p2) \/ peekToken(p2) \notin {"AS", "TO"}
            THEN Err("expected 'AS' or 'TO' after source field", p2)
       ELSE IF isEOF(p3) THEN Err("expected target field after AS/TO", p3)
       ELSE IF peekToken(p4) = "{"
            THEN Call(<<[fn |-> "parseGenerateStatement", stmt |-> generateStmt]>>,
                      nextToken(p4))
            ELSE Ret(generateStmt, p4, 0)

\* parser.go:509-602, up to the parameter loop
parseGenerateStatement(pos) ==
    LET p1 == nextToken(pos)
        sourceField == peekToken(p1)
        p2 == nextToken(p1)
        p3 == nextToken(p2)
        targetField == peekToken(p3)
        p4 == nextToken(p3)
        generateStmt == GenerateStatement(stripQuotes(sourceField), stripQuotes(targetField),
                                          "", DefaultTemperature, DefaultTokens, <<>>)
    IN IF isEOF(p1) THEN Err("expected source field after GENERATE", p1)
       ELSE IF isEOF(p2) \/ peekToken(p2) \notin {"AS", "TO"}
            THEN Err("expected 'AS' or 'TO' after source field", p2)
       ELSE IF isEOF(p3) THEN Err("expected target field after AS/TO", p3)
       ELSE IF peekToken(p4) = "{"
            THEN Call(<<[fn |-> "parseGenerateStatement", stmt |-> generateStmt]>>,
                      nextToken(p4))
            ELSE Ret(generateStmt, p4, 0)

\* parser.go:545-598
GenerateBlockLoop(pos) ==
    LET paramType == peekToken(pos)
        p1 == nextToken(pos)
        arg == peekToken(p1)
        p2 == nextToken(p1)
        next == SkipIf(";", p2)
    IN IF peekToken(pos) = "}" THEN Ret(Top.stmt, nextToken(pos), 1)
       ELSE IF isEOF(pos) THEN Err("expected closing brace }", pos)
       ELSE IF paramType \notin {"MODEL", "TEMPERATURE", "TOKENS", "PROMPT"}
            THEN Err("unknown GENERATE parameter", p1)
       ELSE IF isEOF(p1)
            THEN Err(CASE paramType = "MODEL" -> "expected model name after MODEL"
                       [] paramType = "TEMPERATURE" -> "expected value after TEMPERATURE"
                       [] paramType = "TOKENS" -> "expected value after TOKENS"
                       [] paramType = "PROMPT" -> "expected prompt name after PROMPT", p1)
       ELSE IF paramType = "MODEL"
            THEN Loop([Top EXCEPT !.stmt.Model = stripQuotes(arg)], next)
       ELSE IF paramType = "TEMPERATURE"
            THEN IF ParseFloatOk(arg)
                 THEN Loop([Top EXCEPT !.stmt.Temperature = ParseFloat(arg)], next)
                 ELSE Err("expected numeric value for TEMPERATURE", p2)
       ELSE IF paramType = "TOKENS"
            THEN IF AtoiOk(arg)
                 THEN Loop([Top EXCEPT !.stmt.Tokens = Atoi(arg)], next)
                 ELSE Err("expected integer value for TOKENS", p2)
       ELSE Loop([Top EXCEPT !.stmt.PromptTemplates = Append(@, stripQuotes(arg))], next)

PromptFrame(pc, name, promptType, fields) ==
    [fn |-> "parsePromptStatement", pc |-> pc, name |-> name, promptType |-> promptType,
     fields |-> fields, templateTokens |-> <<>>]

\* parser.go:655-658: after the field list a template must follow
PromptAfterFields(name, promptType, fields, pos) ==
    IF isEOF(pos) \/ peekToken(pos) = "}"
    THEN Err("expected text template after field list", pos)
    ELSE [kind |-> "enter", frame |-> PromptFrame("template", name, promptType, fields),
          pos |-> pos]

\* parser.go:605-704, up to the field list loop or the template loop
parsePromptBody(promptType, pos) ==
    LET p0 == SkipIf("PROMPT", pos)
        promptName == peekToken(p0)
        p1 == nextToken(p0)
        p2 == nextToken(p1)
        p3 == nextToken(p2)
        after == PromptAfterFields(promptName, promptType,
                                   <<stripQuotes(peekToken(p3))>>, nextToken(p3))
    IN IF isEOF(p0) THEN Err("expected prompt name after PROMPT", p0)
       ELSE IF peekToken(p1) = "{"
            THEN IF peekToken(p2) = "FIELDS"
                 THEN IF peekToken(p3) = "["
                      THEN Call(<<PromptFrame("fields", promptName, promptType, <<>>)>>,
                                nextToken(p3))
                      ELSE IF after.kind = "err" THEN after
                           ELSE Call(<<after.frame>>, after.pos)
                 ELSE Call(<<PromptFrame("template", promptName, promptType, <<>>)>>, p2)
       ELSE IF isEOF(p1) THEN Err("expected text template", p1)
       ELSE Ret(PromptStatement(stripQuotes(promptName), <<stripQuotes(peekToken(p1))>>,
                                <<>>, promptType),
                nextToken(p1), 0)

\* parser.go:153-154 and :157-172: PROMPT, SYSTEM PROMPT, USER PROMPT
parsePromptStatement(pos) ==
    LET p1 == nextToken(pos)
    IN IF peekToken(pos) = "PROMPT" THEN parsePromptBody("user", pos)
       ELSE IF peekToken(p1) = "PROMPT"
            THEN parsePromptBody(IF peekToken(pos) = "SYSTEM" THEN "system" ELSE "user",
                                 nextToken(p1))
            ELSE Err("expected PROMPT after SYSTEM or USER", p1)

\* parser.go:635-658
PromptFieldsLoop(pos) ==
    LET after == PromptAfterFields(Top.name, Top.promptType, Top.fields, nextToken(pos))
    IN IF peekToken(pos) = "]"
       THEN IF after.kind = "err" THEN after ELSE Loop(after.frame, after.pos)
       ELSE IF isEOF(pos) THEN Err("expected closing brace ]", pos)
       ELSE Loop([Top EXCEPT !.fields = Append(@, stripQuotes(peekToken(pos)))],
                 SkipIf(",", nextToken(pos)))

\* parser.go:661-671, :674-687 and :698-703
PromptTemplateLoop(pos) ==
    IF peekToken(pos) = "}"
    THEN Ret(PromptStatement(stripQuotes(Top.name), JoinAndStrip(Top.templateTokens),
                             Top.fields, Top.promptType),
             nextToken(pos), 1)
    ELSE IF isEOF(pos) THEN Err("expected closing brace }", pos)
    ELSE Loop([Top EXCEPT !.templateTokens = Append(@, peekToken(pos))], nextToken(pos))

\* parser.go:707-741
parsePragmaStatement(pos) ==
    LET p1 == nextToken(pos)
        pragmaType == peekToken(p1)
        p2 == nextToken(p1)
    IN IF isEOF(p1) THEN Err("expected pragma type after PRAGMA", p1)
       ELSE IF pragmaType = "AUTOSAVE" THEN Ret(PragmaStatement("AUTOSAVE", 1), p2, 0)
       ELSE IF pragmaType = "CONCURRENCY"
            THEN IF isEOF(p2) THEN Err("expected value after PRAGMA CONCURRENCY", p2)
                 ELSE IF AtoiOk(peekToken(p2))
                      THEN Ret(PragmaStatement("CONCURRENCY", Atoi(peekToken(p2))),
                               nextToken(p2), 0)
                      ELSE Err("expected integer value for PRAGMA CONCURRENCY",
                               nextToken(p2))
       ELSE Err("unknown PRAGMA directive", p2)

\* parser.go:136-175: the tokens parseStatement has a case for
StatementKeywords ==
    {"FROM", "WITH", "FIELDS", "USING", "FILTER", "MERGE", "SAVE", "GENERATE", "PROMPT",
     "PRAGMA", "SYSTEM", "USER"}

(***************************************************************************)
(* The steps of DSL.ParseAndCompile (dsl.go:33-52) and of Parser.Parse.    *)
(***************************************************************************)
\* dsl.go:35-39 and parser.go:112-119: NewParser, Tokenize, the empty Program
ParseBegin ==
    /\ dslpc = "start"
    /\ LET t == Tokenize(input)
       IN IF t.err # ""
          THEN /\ parsed' = ParseFailure(t.err)
               /\ dslpc' = "parsed"
               /\ UNCHANGED <<tokens, stack>>
          ELSE /\ tokens' = t.tokens
               /\ stack' = <<[fn |-> "Parse", stmts |-> <<>>]>>
               /\ dslpc' = "parsing"
               /\ UNCHANGED parsed
    /\ position' = 0
    /\ UNCHANGED <<input, result, compVars, execVars, pyVars, pipeVars>>

\* parser.go:121 and :129: the loop of Parse ends at EOF
ParseReturn ==
    /\ InLoopOf("Parse")
    /\ isEOF(position)
    /\ parsed' = [program |-> Program(Top.stmts), err |-> ""]
    /\ stack' = <<>>
    /\ dslpc' = "parsed"
    /\ UNCHANGED <<input, tokens, position, result, compVars, execVars, pyVars, pipeVars>>

StepFrom == StatementExpected /\ peekToken(position) = "FROM"
                /\ Apply(parseFromStatement(position))
StepWith == StatementExpected /\ peekToken(position) = "WITH"
                /\ Apply(parseWithStatement(position))
StepBlock == InLoopOf("parseBlock") /\ (peekToken(position) = "}" \/ isEOF(position))
                /\ Apply(parseBlock(position))
StepFields == StatementExpected /\ peekToken(position) = "FIELDS"
                /\ Apply(parseFieldsStatement(position))
StepFieldsList == InLoopOf("parseFieldsStatement") /\ Apply(FieldsListLoop(position))
StepUsing == StatementExpected /\ peekToken(position) = "USING"
                /\ Apply(parseUsingStatement(position))
StepUsingBlock == InLoopOf("parseUsingStatement") /\ Apply(UsingBlockLoop(position))
StepFilter == StatementExpected /\ peekToken(position) = "FILTER"
                /\ Apply(parseFilterStatement(position))
StepFilterBlock == InLoopOf("parseFilterStatement") /\ Apply(FilterBlockLoop(position))
StepMerge == StatementExpected /\ peekToken(position) = "MERGE"
                /\ Apply(parseMergeStatement(position))
StepMergeList == InLoopOf("parseMergeStatement") /\ Apply(MergeListLoop(position))
StepSave == StatementExpected /\ peekToken(position) = "SAVE"
                /\ Apply(parseSaveStatement(position))
StepGenerate == StatementExpected /\ peekToken(position) = "GENERATE"
                /\ Apply(parseGenerateStatement(position))
StepGenerateBlock == InLoopOf("parseGenerateStatement") /\ Apply(GenerateBlockLoop(position))
StepPrompt == StatementExpected /\ peekToken(position) \in {"PROMPT", "SYSTEM", "USER"}
                /\ Apply(parsePromptStatement(position))
StepPromptFields == InLoopOf("parsePromptStatement") /\ Top.pc = "fields"
                /\ Apply(PromptFieldsLoop(position))
StepPromptTemplate == InLoopOf("parsePromptStatement") /\ Top.pc = "template"
                /\ Apply(PromptTemplateLoop(position))
StepPragma == StatementExpected /\ peekToken(position) = "PRAGMA"
                /\ Apply(parsePragmaStatement(position))
\* parser.go:173-174
StepUnexpected == StatementExpected /\ peekToken(position) \notin StatementKeywords
                /\ Apply(Err("unexpected token", position))

\* dsl.go:40-51: the error is returned with empty text; else a new Compiler compiles
ParseAndCompileReturn ==
    /\ dslpc = "parsed"
    /\ dslpc' = "done"
    /\ IF parsed.err # ""
       THEN /\ result' = [text |-> <<>>, err |-> parsed.err]
            /\ UNCHANGED <<program, compiler, compiled, outputs>>
       ELSE LET c == SetDebug(NewCompiler(parsed.program), debug)
                done == Compile(c)
            IN /\ program' = parsed.program
               /\ compiler' = done.after
               /\ compiled' = TRUE
               /\ outputs' = Append(outputs, CompileOutput(c, TRUE, TRUE, done))
               /\ result' = [text |-> done.text, err |-> ""]
    /\ UNCHANGED <<debug, input, tokens, position, stack, parsed, execVars, pyVars, pipeVars>>

ParseStep ==
    \/ StepFrom \/ StepWith \/ StepBlock \/ StepFields \/ StepFieldsList
    \/ StepUsing \/ StepUsingBlock \/ StepFilter \/ StepFilterBlock
    \/ StepMerge \/ StepMergeList \/ StepSave \/ StepGenerate \/ StepGenerateBlock
    \/ StepPrompt \/ StepPromptFields \/ StepPromptTemplate \/ StepPragma
    \/ StepUnexpected

NextParse == ParseBegin \/ ParseStep \/ ParseReturn \/ ParseAndCompileReturn

(***************************************************************************)
(* The source texts parsed: a sentence, alone or inside the block of a     *)
(* FROM or of a WITH, followed or not by another statement, whole or cut   *)
(* short by up to MaxCut words.                                            *)
(***************************************************************************)
MaxCut == 3

\* README "Simple Example" (part_004:253-255): a FROM without braces, FIELDS on
\* the next line; followed by SAVE "output.json" it is the whole example
ScenarioAHead ==
    <<"FROM", "squad", "\n", "FIELDS", "[", "\"question\"", ",", "\"answers\"", "]", "\n">>
MergeThree == <<"MERGE", "[", "squad", ",", "a/b", ",", "a-b", "]">>
ScenarioA == ScenarioAHead \o <<"SAVE", "\"output.json\"">>

Sentences ==
    { <<"FROM", "squad">>,
      <<"FIELDS", "[", "\"question\"", ",", "\"answers\"", "]">>,
      <<"FIELDS", "\"question\"">>,
      <<"USING", "MODEL", "gpt">>,
      <<"USING", "{", "MODEL", "gpt", "KEY", "k", "}">>,
      <<"USING", "{", "TOKENS", "4", "}">>,
      <<"FILTER", "score", ">=", "4">>,
      <<"FILTER", "score", "{", "len", ">", "2", ";", "len", "=", "x", "}">>,
      <<"FILTER", "score", "squad", "4">>,
      <<"FILTER", "score", "{", "len", "len", "}">>,
      <<"MERGE", "squad", ",", "a/b">>,
      <<"MERGE", "[", "squad", ",", "a/b", "]">>,
      <<"MERGE", "[", "squad", "]">>,
      MergeThree,
      <<"MERGE", "squad", "a/b">>,
      <<"SAVE", "\"output.json\"">>,
      <<"GENERATE", "question", "AS", "answer">>,
      <<"GENERATE", "question", "TO", "answer", "{", "MODEL", "gpt", ";",
        "TEMPERATURE", "0.2", ";", "TOKENS", "64", ";", "PROMPT", "p1", "}">>,
      <<"GENERATE", "question", "AS", "answer", "{", "TOKENS", "64", "}">>,
      <<"GENERATE", "question", "AS", "answer", "{", "MODEL", "gpt", ";",
        "TEMPERATURE", "0.2", "}">>,
      <<"GENERATE", "question", "AS", "answer", "{", "TEMPERATURE", "gpt", "}">>,
      <<"GENERATE", "question", "AS", "answer", "{", "TOKENS", "0.7", "}">>,
      <<"GENERATE", "question", "AS", "answer", "{", "SAVE", "x", "}">>,
      <<"GENERATE", "question", "answer">>,
      <<"PROMPT", "p1", "\"You are\"">>,
      <<"SYSTEM", "PROMPT", "p1", "{", "FIELDS", "[", "question", "]", "Answer", "it", "}">>,
      <<"USER", "PROMPT", "p1", "{", "\"You are\"", "helpful", "\"question\"", "}">>,
      <<"PROMPT", "p1", "{", "FIELDS", "question", "}">>,
      <<"PROMPT", "p1", "{", "FIELDS", "question", "Answer", "}">>,
      <<"SYSTEM", "squad">>,
      <<"PRAGMA", "AUTOSAVE">>,
      <<"PRAGMA", "CONCURRENCY", "4">>,
      <<"PRAGMA", "CONCURRENCY", "x">>,
      <<"PRAGMA", "STREAM">>,
      <<"WITH", "CONCURRENCY", "2">>,
      <<"WITH", "CONCURRENCY", "x">>,
      <<"WITH", "MODEL">>,
      <<"squad">>,
      <<"#", "SAVE", "x", "\n">>,
      <<"@">>,
      ScenarioAHead }

Followers == { <<>>, <<"SAVE", "\"output.json\"">>, <<"\n", "#", "done">> }

Openers ==
    { [open |-> <<>>, close |-> <<>>],
      [open |-> <<"FROM", "squad", "{">>, close |-> <<"}">>],
      [open |-> <<"WITH", "STREAM", "{">>, close |-> <<"}">>],
      [open |-> <<"FROM", "a/b", "{", "WITH", "CONCURRENCY", "2", "{">>,
       close |-> <<"}", "}">>] }

CutShort(words, k) == SubSeq(words, 1, IF Len(words) > k THEN Len(words) - k ELSE 0)

Inputs ==
    { CutShort(o.open \o s \o f \o (IF closed THEN o.close ELSE <<>>), k) :
        o \in Openers, s \in Sentences, f \in Followers,
        closed \in BOOLEAN, k \in 0..MaxCut }

\* dsl.go:25-30 (New) and :33: ParseAndCompile(input) is about to run
InitParse ==
    /\ input \in Inputs
    /\ debug \in BOOLEAN
    /\ program = Nil /\ compiler = NoCompiler /\ compiled = FALSE /\ outputs = <<>>
    /\ tokens = <<>> /\ position = 0 /\ stack = <<>>
    /\ dslpc = "start" /\ parsed = Nil /\ result = Nil
    /\ ExecIdle /\ PyIdle /\ PipeIdle

SpecParse == InitParse /\ [][NextParse]_vars

(***************************************************************************)
(* The Executor (compiler.go:851-1046).  Execute writes the program text   *)
(* to a file, starts the Python child, and runs three goroutines beside    *)
(* the calling one: the signal watcher (with its poller) and the reader of *)
(* the child's stderr.  The child, the operating system's signals and the  *)
(* clock are the environment.                                              *)
(***************************************************************************)
MaxLines == 2       \* lines the child writes, on stdout and stderr together
MaxSignals == 2     \* signals delivered to the Executor's process
GraceTicks == 3     \* the 30 s grace period, in periods in which the poller polls once

NoFile == <<"no such file">>
NoCause == [type |-> "none", code |-> 0, sig |-> "", Stderr |-> <<>>]
NoError == [msg |-> "", cause |-> NoCause]
OSError == [type |-> "os error", code |-> 0, sig |-> "", Stderr |-> <<>>]
Pending == [returned |-> FALSE, err |-> NoError]
Returned(err) == [returned |-> TRUE, err |-> err]

\* compiler.go:879-883: e.tempDir
TempDir == "output"

\* the directory a path lies in, and compiler.go:901-904: the path written to
DirOf(path) == IF path = "scripts/run.py" THEN "scripts" ELSE TempDir
ScriptPathOf(scriptPath) == IF scriptPath = "" THEN "output/syn_script.py" ELSE scriptPath
Paths == {"output/syn_script.py", "scripts/run.py"}

\* compiler.go:1022: what cmd.Wait returns for the child's wait status; the child's
\* stderr goes to the pipe of compiler.go:925, so the ExitError captures none of it
WaitError(status) ==
    IF status.state = "exited" /\ status.code = 0 THEN NoCause
    ELSE [type |-> "ExitError", code |-> status.code, sig |-> status.sig, Stderr |-> <<>>]

\* faulty variant of InterruptedByUser: only when the Executor itself got the signal
InterruptedIfNotified(status) ==
    /\ status.state = "signaled" /\ status.sig \in {"SIGINT", "SIGTERM"}
    /\ gor.watcher # "waiting"

\* compiler.go:1026
InterruptedByUser(status) ==
    status.state = "signaled" /\ status.sig \in {"SIGINT", "SIGTERM"}

Alive == sigs.alive
Terminated == child.state \in {"exited", "signaled"}

\* compiler.go:892-946 and the three go statements (:949, :999): up to the stdout loop
ExecuteBegin ==
    /\ gor.main = "start"
    /\ LET path == ScriptPathOf(execArgs.scriptPath)
           mkdirFails == execArgs.fault = "mkdir"
           dirs == IF mkdirFails THEN fsys.dirs ELSE fsys.dirs \cup {TempDir}
           writeFails == ~mkdirFails /\ DirOf(path) \notin dirs
           startFails == ~mkdirFails /\ ~writeFails /\ execArgs.fault = "start"
           failed == mkdirFails \/ writeFails \/ startFails
       IN /\ fsys' = [dirs |-> dirs,
                      files |-> IF mkdirFails \/ writeFails THEN fsys.files
                                ELSE [fsys.files EXCEPT ![path] = execArgs.pythonCode]]
          /\ sigs' = [sigs EXCEPT !.subscribed = ~mkdirFails /\ ~writeFails]
          /\ child' = IF failed THEN child ELSE [child EXCEPT !.state = "running"]
          /\ gor' = IF failed THEN [gor EXCEPT !.main = "returned"]
                    ELSE [gor EXCEPT !.main = "reading", !.watcher = "waiting"]
          /\ ret' = IF mkdirFails
                    THEN Returned([msg |-> "error creating script directory", cause |-> OSError])
                    ELSE IF writeFails
                    THEN Returned([msg |-> "error saving Python script", cause |-> OSError])
                    ELSE IF startFails
                    THEN Returned([msg |-> "error starting Python script", cause |-> OSError])
                    ELSE ret
    /\ UNCHANGED <<execArgs, io, cmd, kills, compVars, parseVars, pyVars, pipeVars>>

\* the child prints a line
ChildWrite ==
    /\ child.state = "running"
    /\ Len(io.wroteOut) + Len(io.wroteErr) < MaxLines
    /\ \E stream \in {"stdout", "stderr"} :
          io' = IF stream = "stdout"
                THEN [io EXCEPT !.stdout = Append(@, "out"), !.wroteOut = Append(@, "out")]
                ELSE [io EXCEPT !.stderr = Append(@, "err"), !.wroteErr = Append(@, "err")]
    /\ UNCHANGED <<execArgs, fsys, child, cmd, sigs, gor, ret, kills, compVars, parseVars, pyVars, pipeVars>>

\* the child exits by itself
ChildExit ==
    /\ child.state = "running"
    /\ \E code \in {0, 1} : child' = [state |-> "exited", code |-> code, sig |-> ""]
    /\ UNCHANGED <<execArgs, fsys, io, cmd, sigs, gor, ret, kills, compVars, parseVars, pyVars, pipeVars>>

\* the child is terminated by a signal it got from outside (the terminal's Ctrl-C
\* goes to the whole process group)
ChildSignaled ==
    /\ child.state = "running"
    /\ \E sig \in {"SIGINT", "SIGTERM"} :
          child' = [state |-> "signaled", code |-> -1, sig |-> sig]
    /\ UNCHANGED <<execArgs, fsys, io, cmd, sigs, gor, ret, kills, compVars, parseVars, pyVars, pipeVars>>

\* the operating system delivers SIGINT or SIGTERM to the Executor's process:
\* signal.Notify puts it in sigChan (capacity 1, compiler.go:940-941) or drops it;
\* after signal.Stop the default disposition ends the process
SignalExecutor ==
    /\ Alive /\ gor.main # "start"
    /\ sigs.count < MaxSignals
    /\ \E sig \in {"SIGINT", "SIGTERM"} :
          sigs' = IF sigs.subscribed
                  THEN [sigs EXCEPT !.count = @ + 1,
                                    !.sigChan = IF Len(@) < 1 THEN Append(@, sig) ELSE @]
                  ELSE [sigs EXCEPT !.count = @ + 1, !.alive = FALSE]
    /\ UNCHANGED <<execArgs, fsys, child, io, cmd, gor, ret, kills, compVars, parseVars, pyVars, pipeVars>>

\* compiler.go:1006-1019: one line of the child's stdout is printed
StdoutLoop ==
    /\ Alive /\ gor.main = "reading"
    /\ io.stdout # <<>>
    /\ io' = [io EXCEPT !.stdout = Tail(@), !.shownOut = Append(@, Head(io.stdout))]
    /\ UNCHANGED <<execArgs, fsys, child, cmd, sigs, gor, ret, kills, compVars, parseVars, pyVars, pipeVars>>

\* compiler.go:1000: stderrScanner.Scan() returns with a line.  The Scanner serves
\* the lines it holds in its buffer before it reads the pipe, also when cmd.Wait
\* has closed the pipe; a read of the open pipe takes some of the lines in it.
StderrScan ==
    /\ Alive /\ child.state # "none"
    /\ io.errLine = <<>>
    /\ IF io.errBuf # <<>>
       THEN io' = [io EXCEPT !.errBuf = Tail(@), !.errLine = <<Head(io.errBuf)>>]
       ELSE /\ io.stderrOpen /\ io.stderr # <<>>
            /\ \E n \in 1..Len(io.stderr) :
                  io' = [io EXCEPT !.stderr = SubSeq(@, n + 1, Len(@)),
                                   !.errBuf = SubSeq(io.stderr, 2, n),
                                   !.errLine = <<Head(io.stderr)>>]
    /\ UNCHANGED <<execArgs, fsys, child, cmd, sigs, gor, ret, kills, compVars, parseVars, pyVars, pipeVars>>

\* compiler.go:1001: the goroutine prints the line Scan gave on os.Stderr; main
\* may have run cmd.Wait and returned from Execute in between
StderrPrint ==
    /\ Alive /\ child.state # "none"
    /\ io.errLine # <<>>
    /\ io' = [io EXCEPT !.errLine = <<>>, !.shownErr = Append(@, Head(io.errLine))]
    /\ UNCHANGED <<execArgs, fsys, child, cmd, sigs, gor, ret, kills, compVars, parseVars, pyVars, pipeVars>>

\* compiler.go:1021-1046: stdout is at EOF; cmd.Wait reaps the child, sets
\* cmd.ProcessState and closes the pipes; then Execute returns
ExecuteWait ==
    /\ Alive /\ gor.main = "reading"
    /\ Terminated /\ io.stdout = <<>>
    /\ LET err == WaitError(child)
           path == ScriptPathOf(execArgs.scriptPath)
           interrupted == err # NoCause /\ InterruptedByUser(child)
           ok == err = NoCause
           remove == ok /\ ~execArgs.saveScript
       IN /\ cmd' = [cmd EXCEPT !.ProcessState = child]
          /\ io' = [io EXCEPT !.stderrOpen = FALSE]
          /\ sigs' = IF ok THEN [sigs EXCEPT !.subscribed = FALSE] ELSE sigs
          /\ fsys' = IF remove THEN [fsys EXCEPT !.files[path] = NoFile] ELSE fsys
          /\ ret' = IF interrupted THEN Returned(NoError)
                    ELSE IF ~ok
                    THEN Returned([msg |-> "error executing Python script", cause |-> err])
                    ELSE IF remove /\ fsys.files[path] = NoFile
                    THEN Returned([msg |-> "error removing temporary file", cause |-> OSError])
                    ELSE Returned(NoError)
    /\ gor' = [gor EXCEPT !.main = "returned"]
    /\ UNCHANGED <<execArgs, child, kills, compVars, parseVars, pyVars, pipeVars>>

\* compiler.go:950-979: the watcher takes a signal from sigChan, stops the
\* notification, starts the 30 s timer and the poller
WatcherReceive ==
    /\ Alive /\ gor.watcher = "waiting"
    /\ sigs.sigChan # <<>>
    /\ sigs' = [sigs EXCEPT !.sigChan = Tail(@), !.subscribed = FALSE]
    /\ gor' = [gor EXCEPT !.watcher = "grace", !.poller = "polling", !.polled = FALSE,
                          !.elapsed = 0]
    /\ UNCHANGED <<execArgs, fsys, child, io, cmd, ret, kills, compVars, parseVars, pyVars, pipeVars>>

\* compiler.go:971-978: the poller reads cmd.ProcessState, which cmd.Wait writes in
\* the calling goroutine without synchronization: it may still read nil
PollerCheck ==
    /\ Alive /\ gor.poller = "polling" /\ ~gor.polled
    /\ \E seen \in {Nil, cmd.ProcessState} :
          gor' = IF seen # Nil /\ seen.state = "exited"
                 THEN [gor EXCEPT !.poller = "sending"]
                 ELSE [gor EXCEPT !.polled = TRUE]
    /\ UNCHANGED <<execArgs, fsys, child, io, cmd, sigs, ret, kills, compVars, parseVars, pyVars, pipeVars>>

\* a period of the grace time passes; the poller (every 500 ms) polled in it
Tick ==
    /\ Alive /\ gor.watcher = "grace"
    /\ gor.elapsed < GraceTicks
    /\ gor.poller = "polling" => gor.polled
    /\ gor' = [gor EXCEPT !.elapsed = @ + 1, !.polled = FALSE]
    /\ UNCHANGED <<execArgs, fsys, child, io, cmd, sigs, ret, kills, compVars, parseVars, pyVars, pipeVars>>

\* compiler.go:974 and :982-984: the watcher receives from done
WatcherDone ==
    /\ Alive /\ gor.watcher = "grace" /\ gor.poller = "sending"
    /\ gor' = [gor EXCEPT !.watcher = "finished", !.poller = "returned"]
    /\ UNCHANGED <<execArgs, fsys, child, io, cmd, sigs, ret, kills, compVars, parseVars, pyVars, pipeVars>>

\* compiler.go:985-990: the timer fired; cmd.Process.Kill() sends SIGKILL unless
\* the child was reaped
WatcherTimeout ==
    /\ Alive /\ gor.watcher = "grace"
    /\ gor.elapsed = GraceTicks
    /\ gor' = [gor EXCEPT !.watcher = "finished"]
    /\ kills' = Append(kills, [sig |-> "SIGKILL", childWas |-> child.state,
                               elapsed |-> gor.elapsed])
    /\ child' = IF child.state = "running"
                THEN [state |-> "signaled", code |-> -1, sig |-> "SIGKILL"]
                ELSE child
    /\ UNCHANGED <<execArgs, fsys, io, cmd, sigs, ret, compVars, parseVars, pyVars, pipeVars>>

\* the program texts executed: compiled from a program without and with a handler
PyTexts ==
    { CompileText(NewCompiler(Program(<<FromStatement("squad", Nil)>>))),
      CompileText(NewCompiler(Program(<<Autosave, FromStatement("squad", Nil)>>))) }

\* NewExecutor (compiler.go:874-884) and the arguments and surroundings of Execute
InitExec ==
    /\ execArgs \in [pythonCode : PyTexts, saveScript : BOOLEAN,
                     scriptPath : {"", "scripts/run.py"}, fault : {"none", "mkdir", "start"}]
    /\ fsys \in [dirs : SUBSET {TempDir, "scripts"}, files : {[p \in Paths |-> NoFile]}]
    /\ child = [state |-> "none", code |-> 0, sig |-> ""]
    /\ io = [stdout |-> <<>>, stderr |-> <<>>, stderrOpen |-> TRUE, errBuf |-> <<>>,
             errLine |-> <<>>,
             shownOut |-> <<>>, shownErr |-> <<>>, wroteOut |-> <<>>, wroteErr |-> <<>>]
    /\ cmd = [ProcessState |-> Nil]
    /\ sigs = [subscribed |-> FALSE, sigChan |-> <<>>, alive |-> TRUE, count |-> 0]
    /\ gor = [main |-> "start", watcher |-> "none", poller |-> "none", polled |-> FALSE,
              elapsed |-> 0]
    /\ ret = Pending
    /\ kills = <<>>
    /\ program = Nil /\ debug = FALSE /\ compiler = NoCompiler /\ compiled = FALSE /\ outputs = <<>>
    /\ input = <<>> /\ tokens = <<>> /\ position = 0 /\ stack = <<>>
    /\ dslpc = "done" /\ parsed = Nil /\ result = Nil
    /\ PyIdle /\ PipeIdle

NextExec ==
    \/ ExecuteBegin \/ StdoutLoop \/ StderrScan \/ StderrPrint \/ ExecuteWait
    \/ WatcherReceive \/ PollerCheck \/ Tick \/ WatcherDone \/ WatcherTimeout
    \/ ChildWrite \/ ChildExit \/ ChildSignaled \/ SignalExecutor

SpecExec == InitExec /\ [][NextExec]_vars

(***************************************************************************)
(* Where a statement's code lies in an output.  The number of lines a      *)
(* statement emits depends on no field of the Compiler but debug, so it is *)
(* measured on an empty builder with the debug flag dbg of the call.       *)
(***************************************************************************)
Builder0(dbg) ==
    [out |-> <<>>, datasets |-> {}, debug |-> dbg, enableSigIntHandler |-> FALSE]
StmtLen(n, dbg) == Len(compileStatement(Builder0(dbg), n).out)
PreludeLen == Len(Prelude([enableSigIntHandler |-> FALSE]))

RECURSIVE SumLen(_, _)
SumLen(stmts, dbg) ==
    IF stmts = <<>> THEN 0 ELSE StmtLen(Head(stmts), dbg) + SumLen(Tail(stmts), dbg)

\* the lines of top-level statement i are text[StmtStart(i)+1 .. StmtStart(i)+StmtLen]
StmtStart(i, dbg) == PreludeLen + SumLen(SubSeq(program.Statements, 1, i - 1), dbg)
Segment(text, i, dbg) ==
    SubSeq(text, StmtStart(i, dbg) + 1,
           StmtStart(i, dbg) + StmtLen(program.Statements[i], dbg))

\* the code of statement i in the output of Compile call o
SegmentOf(o, i) == Segment(outputs[o].text, i, outputs[o].found.debug)

TopIndexes == DOMAIN program.Statements
DirectStmts(n) == IF n.Block = Nil THEN <<>> ELSE n.Block.Statements

RECURSIVE BlockCode(_, _, _)
\* the code of a sequence of FROM-block statements, each compiled on its own
BlockCode(stmts, dv, dbg) ==
    IF stmts = <<>> THEN <<>>
    ELSE compileBlockStatement(Builder0(dbg), Head(stmts), dv).out
            \o BlockCode(Tail(stmts), dv, dbg)

RECURSIVE ExpectedCalls(_, _)
\* the generate call of each GENERATE, the filename and save call of each SAVE
ExpectedCalls(stmts, dv) ==
    IF stmts = <<>> THEN <<>>
    ELSE (IF IsGenerate(Head(stmts)) THEN <<GenerateCallLine(dv, Head(stmts))>>
          ELSE <<Line("output_file =", <<>>, <<Head(stmts).Filename>>, <<>>), SaveCallLine>>)
         \o ExpectedCalls(Tail(stmts), dv)

IsCallLine(l) ==
    l.k \in {"= generate_content(", "output_file =", "save_current_results()"}
IsLoadLine(l) == l.k = "= load_dataset_with_config("

\* C1 for one FROM statement n whose code is seg, compiled with debug flag dbg
PhaseOrdered(n, seg, dbg) ==
    LET dv == DatasetVar(n.Dataset)
        loads == {k \in DOMAIN seg : IsLoadLine(seg[k])}
    IN /\ Cardinality(loads) = 1
       /\ \A L \in loads :
            /\ seg[L] = LoadLine(dv, n.Dataset)
            \* header (3 lines), configuration code, load comment, load call
            /\ SubSeq(seg, 4, L - 2) = BlockCode(SelectSeq(DirectStmts(n), IsSetup), dv, dbg)
            \* after the load: the GENERATE calls in source order, then the SAVE calls
            /\ SelectSeq(SubSeq(seg, L + 1, Len(seg)), IsCallLine)
                 = ExpectedCalls(SelectSeq(DirectStmts(n), IsGenerate), dv)
                   \o ExpectedCalls(SelectSeq(DirectStmts(n), IsSave), dv)

\* the FROM statements written directly in the block of statement n
NestedFroms(n) ==
    IF n.type \in {"FromStatement", "WithStatement"}
    THEN SelectSeq(DirectStmts(n), LAMBDA s : s.type = "FromStatement")
    ELSE <<>>

\* the code of FROM statement n lies somewhere in seg, in the order of C1
PhaseOrderedWithin(n, seg, dbg) ==
    \E start \in 0..Len(seg) :
        /\ start + StmtLen(n, dbg) <= Len(seg)
        /\ PhaseOrdered(n, SubSeq(seg, start + 1, start + StmtLen(n, dbg)), dbg)

\* C1 for the FROM blocks the top-level dispatcher compiles: in every compiled
\* output, the code of every top-level FROM and of every FROM written directly
\* in the block of a top-level WITH is in the order of C1.
C1_DispatchedFromPhaseOrder ==
    \A o \in DOMAIN outputs : \A i \in TopIndexes :
        LET n == program.Statements[i]
            dbg == outputs[o].found.debug
        IN /\ n.type = "FromStatement" => PhaseOrdered(n, SegmentOf(o, i), dbg)
           /\ n.type = "WithStatement" =>
                 \A k \in DOMAIN NestedFroms(n) :
                     PhaseOrderedWithin(NestedFroms(n)[k], SegmentOf(o, i), dbg)

\* C1: in every compiled output, the code of every FROM block, top-level or
\* written in the block of a top-level FROM or WITH, is its direct configuration
\* statements' code, then exactly one dataset-load call for its dataset, then the
\* calls of its direct GENERATE statements in source order, then those of its
\* direct SAVE statements in source order, whatever the lexical order.
C1_FromPhaseOrder ==
    \A o \in DOMAIN outputs : \A i \in TopIndexes :
        LET n == program.Statements[i]
            dbg == outputs[o].found.debug
        IN /\ n.type = "FromStatement" => PhaseOrdered(n, SegmentOf(o, i), dbg)
           /\ \A k \in DOMAIN NestedFroms(n) :
                 PhaseOrderedWithin(NestedFroms(n)[k], SegmentOf(o, i), dbg)

\* a compiled FROM block in which a GENERATE is written before a FIELDS and a SAVE
\* before a GENERATE
C1_Witness ==
    /\ outputs # <<>>
    /\ \E i \in TopIndexes :
         /\ program.Statements[i].type = "FromStatement"
         /\ LET b == DirectStmts(program.Statements[i])
            IN \E x, y, z \in DOMAIN b :
                 /\ x < y /\ y < z
                 /\ IsSave(b[x]) /\ IsGenerate(b[y]) /\ b[z].type = "FieldsStatement"

(***************************************************************************)
(* C2                                                                      *)
(***************************************************************************)
IsAutosave(n) == n.type = "PragmaStatement" /\ n.Type = "AUTOSAVE"

RECURSIVE EmitsRegistration(_)
\* the top-level dispatcher reaches a PRAGMA AUTOSAVE inside n
EmitsRegistration(n) ==
    \/ IsAutosave(n)
    \/ /\ n.type = "WithStatement"
       /\ n.Block # Nil
       /\ \E k \in DOMAIN n.Block.Statements : EmitsRegistration(n.Block.Statements[k])

\* the registration line is the fourth line a PRAGMA AUTOSAVE emits
PragmaRegOffset == 4

\* the registration of top-level PRAGMA AUTOSAVE i is at the statement's own
\* position in the output of Compile call o, and a registration earlier in that
\* output belongs to an earlier statement that itself holds a PRAGMA AUTOSAVE:
\* none is in the prelude or in any other statement's code
RegisteredInPlace(o, i) ==
    LET text == outputs[o].text
        dbg == outputs[o].found.debug
        pos == StmtStart(i, dbg) + PragmaRegOffset
    IN /\ text[pos] = RegisterSigIntLine
       /\ \A k \in 1..(pos - 1) :
            text[k] = RegisterSigIntLine =>
                \E j \in 1..(i - 1) :
                    /\ EmitsRegistration(program.Statements[j])
                    /\ k > StmtStart(j, dbg)
                    /\ k <= StmtStart(j, dbg) + StmtLen(program.Statements[j], dbg)

\* Compile call o is the first call on a newly created Compiler, whose handler
\* flag is as NewCompiler leaves it (compiler.go:18-38)
FreshCompile(o) == outputs[o].fresh /\ ~outputs[o].found.sig

\* C2 as stated: compiled by a fresh Compiler, every top-level PRAGMA AUTOSAVE has
\* the handler registration at its own position in the statement-derived code,
\* and no registration is anywhere earlier in the output, the prelude included.
C2_NoRegistrationEarlier ==
    \A o \in DOMAIN outputs : \A i \in TopIndexes :
        (FreshCompile(o) /\ IsAutosave(program.Statements[i])) =>
            LET text == outputs[o].text
                pos == StmtStart(i, outputs[o].found.debug) + PragmaRegOffset
            IN /\ text[pos] = RegisterSigIntLine
               /\ \A k \in 1..(pos - 1) : text[k] # RegisterSigIntLine

\* C2: compiled by a fresh Compiler, every top-level PRAGMA AUTOSAVE has the
\* handler registration at its own position in the statement-derived code, and
\* no registration is earlier in the output, the prelude included, but those of
\* earlier statements that are or hold a PRAGMA AUTOSAVE themselves.
C2_RegistrationInPlace ==
    \A o \in DOMAIN outputs : \A i \in TopIndexes :
        (FreshCompile(o) /\ IsAutosave(program.Statements[i])) => RegisteredInPlace(o, i)

\* a fresh compile of a program with PRAGMA AUTOSAVE between two other statements,
\* none of them holding another PRAGMA AUTOSAVE
C2_Witness ==
    /\ outputs # <<>>
    /\ FreshCompile(1)
    /\ Len(program.Statements) = 3
    /\ IsAutosave(program.Statements[2])
    /\ ~EmitsRegistration(program.Statements[1])
    /\ program.Statements[1].type = "FromStatement"
    /\ program.Statements[3].type = "SaveStatement"

C4_CompileTwiceSameText ==
    \A a \in DOMAIN outputs :
        (a > 1 /\ outputs[a].found = outputs[a - 1].left)
            => outputs[a].text = outputs[a - 1].text

(***************************************************************************)
(* The parser's cursor.                                                    *)
(***************************************************************************)
ParseReturned == dslpc \in {"parsed", "done"}

\* C5: during Parse the cursor never decreases and never exceeds the number of
\* tokens (at the end of the tokens nextToken leaves it where it is), and when
\* Parse returns a Program without error the cursor equals the number of tokens.
C5_CursorMonotoneBounded ==
    [][/\ position' >= position
       /\ position' <= Len(tokens')
       /\ (dslpc' = "parsed" /\ parsed'.err = "") => position' = Len(tokens')]_vars

\* "FIELDS" as the last token: nextToken was called at the end of the tokens, gave
\* the empty token and left the cursor, and Parse returned the Program
C5_Witness ==
    /\ dslpc = "parsed" /\ parsed.err = ""
    /\ position = Len(tokens) /\ Len(tokens) >= 1
    /\ \E i \in DOMAIN parsed.program.Statements :
          parsed.program.Statements[i] = FieldsStatement(<<"">>)

(***************************************************************************)
(* Errors of Tokenize and Parse.                                           *)
(***************************************************************************)
\* C6: when tokenizing or parsing fails, Parse returns nil with the error, no
\* Compiler is created or run, and ParseAndCompile returns the empty text with
\* the error: no partial AST and no partial program text is returned.
C6_ParseErrorsFatal ==
    (ParseReturned /\ parsed.err # "") =>
        /\ parsed.program = Nil
        /\ compiler = NoCompiler /\ compiled = FALSE
        /\ outputs = <<>>
        /\ dslpc = "done" => result = [text |-> <<>>, err |-> parsed.err]

\* a statement had been parsed when the next one failed, and ParseAndCompile returned
C6_Witness ==
    /\ dslpc = "done"
    /\ parsed.err = "expected filename after SAVE"
    /\ position = 3
    /\ tokens[1] = "FROM"
    /\ result.text = <<>>

(***************************************************************************)
(* What Execute returns, and what it leaves behind.                        *)
(***************************************************************************)
WaitStatus == cmd.ProcessState
Reaped == WaitStatus # Nil
SignaledIntOrTerm == WaitStatus.state = "signaled" /\ WaitStatus.sig \in {"SIGINT", "SIGTERM"}

\* C7: when the child was terminated by SIGINT or SIGTERM, Execute returns nil,
\* whether or not the Executor itself had received a signal.
C7_SignaledChildIsSuccess ==
    (Reaped /\ SignaledIntOrTerm) => (ret.returned /\ ret.err = NoError)

\* the child died of SIGTERM while the Executor, having got a signal itself, was
\* in its grace period
C7_Witness ==
    /\ Reaped /\ WaitStatus.state = "signaled" /\ WaitStatus.sig = "SIGTERM"
    /\ gor.watcher = "grace"
    /\ ret = Returned(NoError)

\* the child ended unsuccessfully, and not by SIGINT or SIGTERM
ChildFailed ==
    /\ Reaped
    /\ ~(WaitStatus.state = "exited" /\ WaitStatus.code = 0)
    /\ ~SignaledIntOrTerm

\* C8: when the child ended with a nonzero status not caused by SIGINT or
\* SIGTERM, Execute returns an error that carries the text the child wrote to
\* stderr.
C8_ErrorCarriesStderr ==
    ChildFailed =>
        /\ ret.returned /\ ret.err # NoError
        /\ ret.err.cause.Stderr = io.wroteErr

\* C9: when Execute returns nil, the script file is gone unless the caller asked
\* to keep it, and then it holds the program text.
C9_SuccessRemovesScript ==
    (ret.returned /\ ret.err = NoError) =>
        fsys.files[ScriptPathOf(execArgs.scriptPath)] =
            (IF execArgs.saveScript THEN execArgs.pythonCode ELSE NoFile)

\* C10: once the watcher has taken a signal the Executor is not notified of
\* signals any more; the only signal it ever sends to the child is the kill when
\* the grace period has elapsed, and only to a child that has not terminated.
C10_KillOnlyRunningChildAfterGrace ==
    /\ gor.watcher \in {"grace", "finished"} => ~sigs.subscribed
    /\ \A i \in DOMAIN kills :
          /\ kills[i].sig = "SIGKILL"
          /\ kills[i].elapsed = GraceTicks
          /\ kills[i].childWas = "running"

(***************************************************************************)
(* The README's brace-less example (Scenario A).                           *)
(***************************************************************************)
ScenarioAFields == FieldsStatement(<<"question", "answers">>)
ScenarioASave == SaveStatement("output.json")

\* C13: the brace-less text FROM squad / FIELDS ["question","answers"] /
\* SAVE "output.json" parses to a Program with exactly one top-level statement,
\* a FromStatement whose Block holds the FieldsStatement and the SaveStatement.
C13_ScenarioAOneFromWithBlock ==
    (dslpc = "parsed" /\ input = ScenarioA) =>
        /\ parsed.err = ""
        /\ parsed.program =
              Program(<<FromStatement("squad", Block(<<ScenarioAFields, ScenarioASave>>))>>)

(***************************************************************************)
(* MERGE statements of a parsed Program.                                   *)
(***************************************************************************)
RECURSIVE StatementsIn(_)
\* the statements of a list and of the Blocks below them
StatementsIn(stmts) ==
    IF stmts = <<>> THEN {}
    ELSE LET s == Head(stmts)
             below == IF s.type \in {"FromStatement", "WithStatement"} /\ s.Block # Nil
                      THEN StatementsIn(s.Block.Statements)
                      ELSE {}
         IN {s} \cup below \cup StatementsIn(Tail(stmts))

MergesParsed ==
    { s \in StatementsIn(parsed.program.Statements) : s.type = "DatasetMergeStatement" }

\* the dataset names of a MERGE: nextToken gives the empty string at the end of
\* the tokens (parser.go:752-759), which names no dataset
DatasetNames(s) == SelectSeq(s.Datasets, LAMBDA name : name # "")

\* C17: Parse never returns a DatasetMergeStatement with fewer than two dataset
\* names: MERGE [x] fails with the error "at least two datasets are required for
\* MERGE", while MERGE x, y and MERGE [x, y, z] succeed with the names in source
\* order.
C17_MergeHasTwoNames ==
    dslpc = "parsed" =>
        /\ parsed.err = "" => \A s \in MergesParsed : Len(DatasetNames(s)) >= 2
        /\ input = <<"MERGE", "[", "squad", "]">> =>
              /\ parsed.program = Nil
              /\ parsed.err = "at least two datasets are required for MERGE"
        /\ input = <<"MERGE", "squad", ",", "a/b">> =>
              /\ parsed.err = ""
              /\ parsed.program = Program(<<DatasetMergeStatement(<<"squad", "a/b">>)>>)
        /\ input = MergeThree =>
              /\ parsed.err = ""
              /\ parsed.program =
                    Program(<<DatasetMergeStatement(<<"squad", "a/b", "a-b">>)>>)

(***************************************************************************)
(* Defaults of GENERATE.                                                   *)
(***************************************************************************)
GeneratesParsed ==
    { s \in StatementsIn(parsed.program.Statements) : s.type = "GenerateStatement" }

HasToken(kw) == \E i \in DOMAIN tokens : tokens[i] = kw
TokenAfter(kw) == tokens[(CHOOSE i \in DOMAIN tokens : tokens[i] = kw) + 1]

\* C18: a GENERATE without a parameter block has temperature 0.7 and 1024
\* tokens; with a block, each of the two keeps that default unless the block
\* sets it (the texts parsed hold at most one GENERATE, so a TEMPERATURE or
\* TOKENS token of a text with a GENERATE is a parameter of its block).
C18_GenerateDefaults ==
    (dslpc = "parsed" /\ parsed.err = "") =>
        /\ \A g \in GeneratesParsed :
              /\ g.Temperature = IF HasToken("TEMPERATURE")
                                 THEN ParseFloat(TokenAfter("TEMPERATURE"))
                                 ELSE DefaultTemperature
              /\ g.Tokens = IF HasToken("TOKENS") THEN Atoi(TokenAfter("TOKENS"))
                            ELSE DefaultTokens
        /\ input = <<"GENERATE", "question", "AS", "answer">> =>
              parsed.program =
                 Program(<<GenerateStatement("question", "answer", "", 7, 1024, <<>>)>>)

\* a GENERATE whose block sets TOKENS only was parsed: 64 tokens, temperature 0.7
C18_Witness ==
    /\ dslpc = "parsed" /\ parsed.err = ""
    /\ HasToken("TOKENS") /\ ~HasToken("TEMPERATURE")
    /\ \E g \in GeneratesParsed : g.Tokens = 64 /\ g.Temperature = DefaultTemperature

(***************************************************************************)
(* SAVE and GENERATE calls of the compiled text.                           *)
(***************************************************************************)
RECURSIVE CountIn(_, _)
\* how many statements of a type a list holds, the Blocks below it included
CountIn(stmts, type) ==
    IF stmts = <<>> THEN 0
    ELSE LET s == Head(stmts)
             below == IF s.type \in {"FromStatement", "WithStatement"} /\ s.Block # Nil
                      THEN CountIn(s.Block.Statements, type)
                      ELSE 0
         IN (IF s.type = type THEN 1 ELSE 0) + below + CountIn(Tail(stmts), type)

SaveCallsIn(text) == Cardinality({k \in DOMAIN text : text[k] = SaveCallLine})
GenerateCallsIn(text) ==
    Cardinality({k \in DOMAIN text :
                    text[k].k \in {"= generate_content(",
                                   "last_dataset = generate_content(last_dataset,"}})

\* the save call at line k of seg follows the assignments of the file name and
\* of the was-saved flag (a comment line may stand before the call)
SaveCallPrepared(seg, k) ==
    \E j \in {k - 3, k - 2} :
        /\ j >= 1
        /\ seg[j].k = "output_file ="
        /\ seg[j + 1] = Fixed("was_saved = True")
        /\ \A m \in (j + 2)..(k - 1) : seg[m] = Fixed("# save the dataset")

\* C14: every SAVE statement compiles to exactly one call of the save routine,
\* inside the code of the top-level statement that holds it and right after the
\* assignments of the output file name and the was-saved flag, none being left
\* to the end of the program; a program without GENERATE has no call of the
\* generation driver; Scenario A has no generation call and one save call.
C14_SaveCalledInPlace ==
    \A o \in DOMAIN outputs :
        LET text == outputs[o].text
        IN /\ \A i \in TopIndexes :
                LET seg == SegmentOf(o, i)
                IN /\ SaveCallsIn(seg) = CountIn(<<program.Statements[i]>>, "SaveStatement")
                   /\ \A k \in DOMAIN seg : seg[k] = SaveCallLine => SaveCallPrepared(seg, k)
           /\ SaveCallsIn(text) = CountIn(program.Statements, "SaveStatement")
           /\ CountIn(program.Statements, "GenerateStatement") = 0
                 => GenerateCallsIn(text) = 0
           /\ program \in {ScenarioAProgram, ScenarioABlockProgram}
                 => GenerateCallsIn(text) = 0 /\ SaveCallsIn(text) = 1

(***************************************************************************)
(* The variables of the loaded datasets.                                   *)
(***************************************************************************)
LoadLinesOf(text) == {k \in DOMAIN text : IsLoadLine(text[k])}

\* C15: within one compile, every FROM binds its dataset to the variable made
\* of "ds_" and the dataset name with "/", "-" and "." replaced by "_", and two
\* FROM statements that name different datasets never bind the same variable.
C15_DatasetVarsUnique ==
    \A o \in DOMAIN outputs :
        LET text == outputs[o].text
        IN \A a, b \in LoadLinesOf(text) :
              /\ text[a].v[1] = DatasetVar(text[a].s[1])
              /\ text[a].s[1] # text[b].s[1] => text[a].v[1] # text[b].v[1]

(***************************************************************************)
(* The operands of MERGE.                                                  *)
(***************************************************************************)
\* the operands of top-level statement i are spelled as the variables of FROM
\* statements before it
WrittenAsEarlierVars(i) ==
    LET n == program.Statements[i]
    IN /\ n.type = "DatasetMergeStatement"
       /\ \A d \in DOMAIN n.Datasets :
             \E j \in 1..(i - 1) :
                 /\ program.Statements[j].type = "FromStatement"
                 /\ Chars(n.Datasets[d]) = DatasetVar(program.Statements[j].Dataset)

\* C16: a MERGE whose operands are written as the dataset variables of earlier
\* FROM statements concatenates those datasets: every variable in its
\* concatenate_datasets([...]) is one that an earlier load call has bound.
C16_MergeOperandsBound ==
    \A o \in DOMAIN outputs : \A i \in TopIndexes :
        WrittenAsEarlierVars(i) =>
            LET text == outputs[o].text
                at == StmtStart(i, outputs[o].found.debug) + 2
                bound == {text[k].v[1] : k \in {m \in LoadLinesOf(text) : m < at}}
            IN /\ text[at].k = "= concatenate_datasets(["
               /\ \A x \in 2..Len(text[at].v) : text[at].v[x] \in bound

(***************************************************************************)
(* The directory of the script.                                            *)
(***************************************************************************)
\* C20: before writing the script Execute makes sure that the directory which
\* is to hold it exists: unless creating a directory itself fails, that
\* directory exists once Execute is past its start, also when it did not exist
\* before, and Execute does not fail with "error saving Python script".
C20_ScriptDirCreated ==
    (gor.main # "start" /\ execArgs.fault # "mkdir") =>
        /\ DirOf(ScriptPathOf(execArgs.scriptPath)) \in fsys.dirs
        /\ ret # Returned([msg |-> "error saving Python script", cause |-> OSError])

(***************************************************************************)
(* Tokenize, character by character (parser.go:65-109).  A text is the     *)
(* sequence of its characters, a token likewise.  SpecTokenize applies     *)
(* Tokenize to every text of up to MaxText characters of TextAlphabet.     *)
(***************************************************************************)
MaxText == 5

Quote == "\""
TextAlphabet == {Quote, "#", ",", " ", "\n", "A", "S"}

Letters ==
    {"a", "b", "c", "d", "e", "f", "g", "h", "i", "j", "k", "l", "m", "n", "o", "p", "q",
     "r", "s", "t", "u", "v", "w", "x", "y", "z", "A", "B", "C", "D", "E", "F", "G", "H",
     "I", "J", "K", "L", "M", "N", "O", "P", "Q", "R", "S", "T", "U", "V", "W", "X", "Y",
     "Z"}
DigitChars == {"0", "1", "2", "3", "4", "5", "6", "7", "8", "9"}
\* [\w\d\.\/-]
WordChars == Letters \cup DigitChars \cup {"_", ".", "/", "-"}

\* the alternatives of the token pattern before the placeholder, in their order
FixedAlternatives ==
    << <<"T", "O", "K", "E", "N", "S">>, <<"S", "Y", "S", "T", "E", "M">>,
       <<"U", "S", "E", "R">>, <<"A", "S">>, <<"T", "O">>, <<"F", "R", "O", "M">>,
       <<"W", "I", "T", "H">>, <<"F", "I", "E", "L", "D", "S">>,
       <<"U", "S", "I", "N", "G">>, <<"F", "I", "L", "T", "E", "R">>,
       <<"M", "O", "D", "E", "L">>, <<"K", "E", "Y">>, <<"U", "R", "L">>,
       <<"C", "O", "N", "C", "U", "R", "R", "E", "N", "C", "Y">>,
       <<"S", "T", "R", "E", "A", "M">>, <<"M", "E", "R", "G", "E">>,
       <<"S", "A", "V", "E">>, <<"G", "E", "N", "E", "R", "A", "T", "E">>,
       <<"P", "R", "O", "M", "P", "T">>,
       <<"T", "E", "M", "P", "E", "R", "A", "T", "U", "R", "E">>,
       <<"{">>, <<"}">>, <<"=">>, <<">", "=">>, <<"<", "=">>, <<"!", "=">>, <<">">>,
       <<"<">>, <<";">>, <<",">>, <<"[">>, <<"]">> >>

StrPrefix == <<"_", "_", "S", "T", "R", "_">>
StrSuffix == <<"_", "_">>

StartsWithAt(text, pos, w) ==
    /\ pos + Len(w) - 1 <= Len(text)
    /\ SubSeq(text, pos, pos + Len(w) - 1) = w

RECURSIVE RunLen(_, _, _)
\* the length of the longest run of characters of a set that starts at pos
RunLen(text, pos, set) ==
    IF pos > Len(text) \/ text[pos] \notin set THEN 0
    ELSE 1 + RunLen(text, pos + 1, set)

RECURSIVE IndexFrom(_, _, _)
\* the first position from pos on that holds c, 0 if there is none
IndexFrom(text, pos, c) ==
    IF pos > Len(text) THEN 0
    ELSE IF text[pos] = c THEN pos
    ELSE IndexFrom(text, pos + 1, c)

RECURSIVE RemoveComments(_, _)
\* parser.go:67-68: `#.*` replaced by nothing; "." does not match the newline
RemoveComments(text, inComment) ==
    IF text = <<>> THEN <<>>
    ELSE IF Head(text) = "\n" THEN <<"\n">> \o RemoveComments(Tail(text), FALSE)
    ELSE IF inComment \/ Head(text) = "#" THEN RemoveComments(Tail(text), TRUE)
    ELSE <<Head(text)>> \o RemoveComments(Tail(text), FALSE)

RECURSIVE ExtractStrings(_, _, _)
\* parser.go:71-76: every `"[^"]*"` is kept in stringTokens and replaced by
\* __STR_<its index>__
ExtractStrings(text, pos, stringTokens) ==
    LET close == IndexFrom(text, pos + 1, Quote)
    IN IF pos > Len(text) THEN [text |-> <<>>, stringTokens |-> stringTokens]
       ELSE IF text[pos] = Quote /\ close # 0
            THEN LET rest == ExtractStrings(text, close + 1,
                                            Append(stringTokens, SubSeq(text, pos, close)))
                 IN [rest EXCEPT !.text =
                        StrPrefix \o Digits(Len(stringTokens)) \o StrSuffix \o @]
            ELSE LET rest == ExtractStrings(text, pos + 1, stringTokens)
                 IN [rest EXCEPT !.text = <<text[pos]>> \o @]

\* the length of the match of the pattern's group at pos, 0 if it does not match:
\* the first alternative that matches wins (leftmost-first)
GroupMatchLen(text, pos) ==
    LET fixed == {a \in DOMAIN FixedAlternatives :
                     StartsWithAt(text, pos, FixedAlternatives[a])}
        first == CHOOSE a \in fixed : \A b \in fixed : a <= b
        digits == RunLen(text, pos + Len(StrPrefix), DigitChars)
    IN IF fixed # {} THEN Len(FixedAlternatives[first])
       ELSE IF /\ StartsWithAt(text, pos, StrPrefix)
               /\ digits > 0
               /\ StartsWithAt(text, pos + Len(StrPrefix) + digits, StrSuffix)
            THEN Len(StrPrefix) + digits + Len(StrSuffix)
       ELSE RunLen(text, pos, WordChars)

RECURSIVE FindAll(_, _)
\* parser.go:79-80: the matches of the token pattern from pos on; a character at
\* which the group does not match (white space included) is passed over
FindAll(text, pos) ==
    LET n == GroupMatchLen(text, pos)
    IN IF pos > Len(text) THEN <<>>
       ELSE IF n = 0 THEN FindAll(text, pos + 1)
       ELSE <<SubSeq(text, pos, pos + n - 1)>> \o FindAll(text, pos + n)

RECURSIVE DigitsValue(_)
DigitsValue(ds) ==
    IF ds = <<>> THEN 0
    ELSE 10 * DigitsValue(SubSeq(ds, 1, Len(ds) - 1))
         + (CHOOSE v \in 0..9 : Digits(v) = <<ds[Len(ds)]>>)

\* parser.go:91: strings.HasPrefix(token, "__STR_")
HasStrPrefix(token) == StartsWithAt(token, 1, StrPrefix)
\* parser.go:92: token[6 : len(token)-2]
IndexText(token) == SubSeq(token, Len(StrPrefix) + 1, Len(token) - 2)
\* the decimal digits of the largest int (64 bits); the smallest is -(that + 1)
MaxIntDigits ==
    <<"9", "2", "2", "3", "3", "7", "2", "0", "3", "6", "8", "5", "4", "7", "7", "5",
      "8", "0", "7">>
MinIntDigits == [MaxIntDigits EXCEPT ![Len(MaxIntDigits)] = "8"]

RECURSIVE StripZeros(_)
StripZeros(ds) == IF ds # <<>> /\ Head(ds) = "0" THEN StripZeros(Tail(ds)) ELSE ds

RECURSIVE DigitsLeq(_, _)
\* of two digit sequences of one length, the first is the smaller number or the same
DigitsLeq(x, y) ==
    IF x = <<>> THEN TRUE
    ELSE IF Head(x) # Head(y) THEN DigitsValue(<<Head(x)>>) < DigitsValue(<<Head(y)>>)
    ELSE DigitsLeq(Tail(x), Tail(y))

\* the digits after the sign of the index text, and those after their leading zeros
IndexDigits(token) ==
    LET t == IndexText(token)
    IN IF t # <<>> /\ t[1] \in {"-", "+"} THEN Tail(t) ELSE t
IndexMagnitude(token) == StripZeros(IndexDigits(token))
IndexNegative(token) == IndexText(token)[1] = "-" /\ IndexMagnitude(token) # <<>>

\* strconv.Atoi succeeds on it: an optional sign, decimal digits, a value that an
\* int holds
IndexOk(token) ==
    LET ds == IndexDigits(token)
        m == IndexMagnitude(token)
        limit == IF IndexNegative(token) THEN MinIntDigits ELSE MaxIntDigits
    IN /\ ds # <<>> /\ \A i \in DOMAIN ds : ds[i] \in DigitChars
       /\ \/ Len(m) < Len(limit)
          \/ Len(m) = Len(limit) /\ DigitsLeq(m, limit)
\* the value, for an index of a size that the strings of a text can have
IndexOf(token) ==
    IF IndexNegative(token) THEN 0 - DigitsValue(IndexMagnitude(token))
    ELSE DigitsValue(IndexMagnitude(token))
\* parser.go:93: index < len(stringTokens), n being that length
IndexBelow(token, n) ==
    \/ IndexNegative(token)
    \/ Len(IndexMagnitude(token)) <= Len(Digits(n)) /\ IndexOf(token) < n

\* parser.go:92-93 stops the program: the slice bounds are out of range, or the
\* index is negative
RestorePanics(token) ==
    /\ HasStrPrefix(token)
    /\ \/ Len(token) < Len(StrPrefix) + Len(StrSuffix)
       \/ IndexOk(token) /\ IndexNegative(token)

\* parser.go:90-96
Restore(token, stringTokens) ==
    IF HasStrPrefix(token) /\ IndexOk(token) /\ IndexBelow(token, Len(stringTokens))
    THEN stringTokens[IndexOf(token) + 1]
    ELSE token

\* parser.go:65-109
TokenizeText(text) ==
    LET extracted == ExtractStrings(RemoveComments(text, FALSE), 1, <<>>)
        matches == FindAll(extracted.text, 1)
    IN IF matches = <<>>
       THEN [err |-> "tokenization error: no recognizable tokens found", tokens |-> <<>>]
       ELSE IF \E m \in DOMAIN matches : RestorePanics(matches[m])
       THEN [err |-> "panic", tokens |-> <<>>]
       ELSE [err |-> "",
             tokens |-> [m \in DOMAIN matches |-> Restore(matches[m], extracted.stringTokens)]]

Texts == UNION { [1..n -> TextAlphabet] : n \in 0..MaxText }

\* NewParser(input) has returned
InitTokenize ==
    /\ input \in Texts
    /\ tokens = <<>> /\ position = 0 /\ stack = <<>>
    /\ dslpc = "start" /\ parsed = Nil /\ result = Nil
    /\ program = Nil /\ debug = FALSE /\ compiler = NoCompiler /\ compiled = FALSE /\ outputs = <<>>
    /\ ExecIdle /\ PyIdle /\ PipeIdle

\* p.Tokenize()
TokenizeCall ==
    /\ dslpc = "start"
    /\ LET r == TokenizeText(input)
       IN /\ tokens' = r.tokens
          /\ parsed' = [program |-> Nil, err |-> r.err]
    /\ dslpc' = "tokenized"
    /\ UNCHANGED <<input, position, stack, result, compVars, execVars, pyVars, pipeVars>>

NextTokenize == TokenizeCall

SpecTokenize == InitTokenize /\ [][NextTokenize]_vars

RECURSIVE Literals(_, _, _)
\* the string literals of a text, read from left to right: outside a comment, a
\* quote opens a literal that the next quote closes
Literals(text, pos, inComment) ==
    LET close == IndexFrom(text, pos + 1, Quote)
    IN IF pos > Len(text) THEN <<>>
       ELSE IF text[pos] = "\n" THEN Literals(text, pos + 1, FALSE)
       ELSE IF inComment \/ text[pos] = "#" THEN Literals(text, pos + 1, TRUE)
       ELSE IF text[pos] = Quote /\ close # 0
            THEN <<SubSeq(text, pos, close)>> \o Literals(text, close + 1, FALSE)
       ELSE Literals(text, pos + 1, FALSE)

RECURSIVE Blanked(_, _, _)
\* the text with every string literal replaced by a space
Blanked(text, pos, inComment) ==
    LET close == IndexFrom(text, pos + 1, Quote)
    IN IF pos > Len(text) THEN <<>>
       ELSE IF text[pos] = "\n" THEN <<"\n">> \o Blanked(text, pos + 1, FALSE)
       ELSE IF inComment \/ text[pos] = "#" THEN <<text[pos]>> \o Blanked(text, pos + 1, TRUE)
       ELSE IF text[pos] = Quote /\ close # 0 THEN <<" ">> \o Blanked(text, close + 1, FALSE)
       ELSE <<text[pos]>> \o Blanked(text, pos + 1, FALSE)

IsQuotedText(token) == token # <<>> /\ token[1] = Quote

\* C19: every double-quoted string literal of the input yields exactly one
\* token, equal to its quoted text, whatever it contains (punctuation, keywords,
\* white space, comment markers): the quoted tokens are the literals in their
\* order, and the other tokens are those of the text around the literals, none
\* coming from inside a literal.
C19_StringLiteralsKept ==
    dslpc = "tokenized" =>
        /\ SelectSeq(tokens, IsQuotedText) = Literals(input, 1, FALSE)
        /\ SelectSeq(tokens, LAMBDA t : ~IsQuotedText(t))
              = TokenizeText(Blanked(input, 1, FALSE)).tokens

(***************************************************************************)
(* The generated program at run time (the Python text that Compile emits,  *)
(* compiler.go:51-418, and the statement code of one FROM block): main()   *)
(* loads a dataset, runs one GENERATE over it and, if the program has a    *)
(* SAVE, saves it.  SIGINT may arrive once, at any point.  The program has *)
(* PRAGMA AUTOSAVE as its first statement or not at all.  CancelledError   *)
(* is a BaseException (Python 3.8 and later), debug is off, and model and  *)
(* API key are set.                                                        *)
(***************************************************************************)
MaxItems == 4           \* rows of the dataset
BatchLimit == 3         \* stands for the 100 of min(100, sample_size), compiler.go:292
MaxConcurrency == 2     \* the largest value of WITH or PRAGMA CONCURRENCY
\* the values of CONCURRENCY: strconv.Atoi takes 0 and a negative literal too
\* (parser.go:221, :729)
Concurrencies == {-1} \cup 0..MaxConcurrency

\* a row of the dataset: its number, and whether it has the target field
Item(j, hasTarget) == [id |-> j, target |-> hasTarget]
\* load_dataset_with_config: the rows as loaded, without the target field
LoadedDataset(n) == [j \in 1..n |-> Item(j, FALSE)]
\* compiler.go:212-213 and :244-245: what process_item_async returns for row j: the
\* row with the target field when the call has been made, the row as it was when
\* the task found shutdown set
ProcessedItem(j, state) == Item(j, state = "done")

\* loaded_datasets[list(loaded_datasets.keys())[-1]]; the registry is the
\* sequence of the datasets of loaded_datasets, empty at first
LastDataset(registry) == IF registry = <<>> THEN <<>> ELSE registry[Len(registry)]

NoDriver == [pc |-> "none"]
Finished == {"done", "skipped", "cancelled", "exited"}
\* the calls between the entry and the exit of async with semaphore, compiler.go:163
InFlight ==
    Cardinality({j \in DOMAIN tasks : tasks[j].state \in {"calling", "closing", "exiting"}})
\* min(a, b)
Min(a, b) == IF a < b THEN a ELSE b

\* faulty variant of CanAcquire: no semaphore bounds the calls
CanAcquireAlways(size, inFlight) == TRUE

\* compiler.go:163 and :270: async with semaphore, asyncio.Semaphore(concurrency)
CanAcquire(size, inFlight) == inFlight < size

\* compiler.go:113-154: save_current_results writes the dataset to the directory
\* of the file name and then to the JSON file, unless there is no dataset or that
\* directory exists; a write is on record once save_to_disk has made the directory
SaveCurrentResults(p, data, atSigint) ==
    LET file == IF p.was_saved THEN p.output_file ELSE "emergency_save"
    IN IF p.registry = <<>> \/ \E w \in DOMAIN p.writes : p.writes[w].file = file
       THEN p.writes
       ELSE Append(p.writes, [file |-> file, data |-> data, atSigint |-> atSigint,
                              json |-> TRUE])

\* compiler.go:348-350 and :366-376: every task that has not finished is cancelled;
\* a task waiting in await client.close() takes CancelledError in the bare except
\* of compiler.go:205-206 and runs to its end
CancelAll(ts) ==
    [j \in DOMAIN ts |->
        IF ts[j].state \in Finished \/ ts[j].state = "none" THEN ts[j]
        ELSE IF ts[j].state = "closing" THEN [ts[j] EXCEPT !.state = "done"]
        ELSE [ts[j] EXCEPT !.state = "cancelled"]]

\* the rows whose generation call has completed
Completed == {j \in DOMAIN tasks : tasks[j].state = "done"}

\* main() begins: the default values of compiler.go:67-87
InitGen ==
    /\ py \in { [pc |-> "load", autosave |-> a, hasSave |-> s, concurrency |-> c, rows |-> n,
                 shutdown |-> FALSE, was_saved |-> FALSE, output_file |-> "output.json",
                 registry |-> <<>>, writes |-> <<>>, sigint |-> "none", doneAtSigint |-> {}] :
                 a \in BOOLEAN, s \in BOOLEAN, c \in Concurrencies,
                 n \in 0..MaxItems }
    /\ drv = NoDriver
    /\ tasks = <<>>
    /\ program = Nil /\ debug = FALSE /\ compiler = NoCompiler /\ compiled = FALSE /\ outputs = <<>>
    /\ input = <<>> /\ tokens = <<>> /\ position = 0 /\ stack = <<>>
    /\ dslpc = "done" /\ parsed = Nil /\ result = Nil
    /\ ExecIdle /\ pymain = Nil /\ PipeIdle

\* compiler.go:480-481: <var> = load_dataset_with_config(...); loaded_datasets[..] = <var>
MainLoad ==
    /\ py.pc = "load"
    /\ py' = [py EXCEPT !.pc = "generate", !.registry = <<LoadedDataset(py.rows)>>]
    /\ UNCHANGED <<drv, tasks, compVars, parseVars, execVars, pymain, pipeVars>>

\* compiler.go:761, :342-358 and :253-295: <var> = generate_content(<var>, ...) starts
\* the event loop and generate_content_async, which runs up to its batch loop; a
\* negative concurrency makes asyncio.Semaphore raise (compiler.go:270) and an empty
\* dataset makes range(0, 0, 0) raise (compiler.go:294), and the handler of
\* compiler.go:333-339 returns the dataset as it is
MainGenerate ==
    /\ py.pc = "generate"
    /\ py' = [py EXCEPT !.pc = "running"]
    /\ tasks' = [j \in 1..py.rows |-> [state |-> "none", chunk |-> 0]]
    /\ drv' = [pc |-> IF py.concurrency < 0 \/ py.rows = 0 THEN "returned" ELSE "chunk",
               loopHandler |-> ~py.shutdown /\ ~py.autosave,
               semaphore |-> py.concurrency,
               batch_size |-> Min(BatchLimit, py.rows),
               i |-> 0, chunk |-> 0,
               processed_items |-> <<>>,
               result |-> LastDataset(py.registry)]
    /\ UNCHANGED <<compVars, parseVars, execVars, pymain, pipeVars>>

\* compiler.go:294-310: the tasks of the current batch are created
ChunkBegin ==
    /\ py.pc = "running" /\ drv.pc = "chunk"
    /\ LET batch == (drv.i + 1)..Min(drv.i + drv.batch_size, py.rows)
       IN /\ tasks' = [j \in DOMAIN tasks |->
                          IF j \in batch /\ ~py.shutdown
                          THEN [state |-> "created", chunk |-> drv.chunk + 1]
                          ELSE tasks[j]]
          /\ drv' = IF py.shutdown
                    THEN [drv EXCEPT !.pc = "returned", !.result = drv.processed_items]
                    ELSE [drv EXCEPT !.pc = "gather", !.chunk = drv.chunk + 1]
    /\ UNCHANGED <<py, compVars, parseVars, execVars, pymain, pipeVars>>

\* compiler.go:209-243 and :159: process_item_async returns the row as it is when
\* shutdown is set, and otherwise builds the prompt and comes to the semaphore of
\* call_openai_api_async
TaskRun(j) ==
    /\ py.pc = "running"
    /\ j \in DOMAIN tasks
    /\ tasks[j].state = "created"
    /\ tasks' = [tasks EXCEPT ![j].state = IF py.shutdown THEN "skipped" ELSE "waiting"]
    /\ UNCHANGED <<py, drv, compVars, parseVars, execVars, pymain, pipeVars>>

\* compiler.go:163-185: the semaphore is acquired and the request is sent
TaskAcquire(j) ==
    /\ py.pc = "running"
    /\ j \in DOMAIN tasks
    /\ tasks[j].state = "waiting"
    /\ CanAcquire(drv.semaphore, InFlight)
    /\ tasks' = [tasks EXCEPT ![j].state = "calling"]
    /\ UNCHANGED <<py, drv, compVars, parseVars, execVars, pymain, pipeVars>>

\* compiler.go:177-202: the response, or the error text in its place, comes back,
\* and the finally clause comes to await client.close()
CallReturn(j) ==
    /\ py.pc = "running"
    /\ j \in DOMAIN tasks
    /\ tasks[j].state = "calling"
    /\ tasks' = [tasks EXCEPT ![j].state = "closing"]
    /\ UNCHANGED <<py, drv, compVars, parseVars, execVars, pymain, pipeVars>>

\* compiler.go:203-206 and :244-245: the client is closed, the semaphore is released
\* and the target field is set
ClientClose(j) ==
    /\ py.pc = "running"
    /\ j \in DOMAIN tasks
    /\ tasks[j].state = "closing"
    /\ tasks' = [tasks EXCEPT ![j].state = "done"]
    /\ UNCHANGED <<py, drv, compVars, parseVars, execVars, pymain, pipeVars>>

\* compiler.go:312-330: asyncio.gather has the results of the whole batch; they are
\* added to processed_items, and after the last batch the new dataset is returned
GatherDone ==
    /\ py.pc = "running" /\ drv.pc = "gather"
    /\ \A j \in DOMAIN tasks :
          tasks[j].chunk = drv.chunk => tasks[j].state \in {"done", "skipped"}
    /\ LET batch == SelectSeq([j \in DOMAIN tasks |-> j],
                              LAMBDA j : tasks[j].chunk = drv.chunk)
           all == drv.processed_items
                     \o [k \in DOMAIN batch |-> ProcessedItem(batch[k], tasks[batch[k]].state)]
           next == drv.i + drv.batch_size
       IN drv' = IF next >= py.rows \/ py.shutdown
                 THEN [drv EXCEPT !.processed_items = all, !.i = next, !.pc = "returned",
                                  !.result = all]
                 ELSE [drv EXCEPT !.processed_items = all, !.i = next, !.pc = "chunk"]
    /\ UNCHANGED <<py, tasks, compVars, parseVars, execVars, pymain, pipeVars>>

\* compiler.go:357-380: run_until_complete has returned or raised; generate_content
\* leaves through its finally, where loop.close() takes the loop's SIGINT handler
\* away, and returns the dataset to the statement of compiler.go:761
LoopClose ==
    /\ py.pc = "running" /\ drv.pc = "returned"
    /\ py' = [py EXCEPT !.pc = "update"]
    /\ drv' = [drv EXCEPT !.pc = "closed", !.loopHandler = FALSE]
    /\ UNCHANGED <<tasks, compVars, parseVars, execVars, pymain, pipeVars>>

\* compiler.go:765: loaded_datasets['<var>'] = <var>
MainUpdate ==
    /\ py.pc = "update"
    /\ py' = [py EXCEPT !.pc = IF py.hasSave THEN "assign" ELSE "end",
                        !.registry = <<drv.result>>]
    /\ UNCHANGED <<drv, tasks, compVars, parseVars, execVars, pymain, pipeVars>>

\* compiler.go:768-769: output_file = '<name>', was_saved = True
MainAssign ==
    /\ py.pc = "assign"
    /\ py' = [py EXCEPT !.pc = "save_call", !.was_saved = TRUE]
    /\ UNCHANGED <<drv, tasks, compVars, parseVars, execVars, pymain, pipeVars>>

\* compiler.go:770 and :114-142: save_current_results() is called and returns at
\* once without a dataset or when the directory exists; otherwise it comes to
\* save_to_disk
MainSave ==
    /\ py.pc = "save_call"
    /\ py' = [py EXCEPT !.pc = IF SaveCurrentResults(py, LastDataset(py.registry), FALSE)
                                   = py.writes
                               THEN "end" ELSE "saving"]
    /\ UNCHANGED <<drv, tasks, compVars, parseVars, execVars, pymain, pipeVars>>

\* compiler.go:146: save_to_disk has written the dataset to its directory; the
\* JSON file is not written yet
MainSaveToDisk ==
    /\ py.pc = "saving"
    /\ LET written == SaveCurrentResults(py, LastDataset(py.registry), FALSE)
       IN py' = [py EXCEPT !.pc = "dump",
                           !.writes = [written EXCEPT ![Len(written)].json = FALSE]]
    /\ UNCHANGED <<drv, tasks, compVars, parseVars, execVars, pymain, pipeVars>>

\* compiler.go:149-152: json.dump has written the JSON file, and the message is printed
MainSaved ==
    /\ py.pc = "dump"
    /\ py' = [py EXCEPT !.pc = "end", !.writes[Len(py.writes)].json = TRUE]
    /\ UNCHANGED <<drv, tasks, compVars, parseVars, execVars, pymain, pipeVars>>

\* compiler.go:428-429: main() returns and the program ends
MainReturn ==
    /\ py.pc = "end"
    /\ py' = [py EXCEPT !.pc = "exited"]
    /\ UNCHANGED <<drv, tasks, compVars, parseVars, execVars, pymain, pipeVars>>

\* compiler.go:200-206 and :366-380: client.close() returns in the finally clause
\* of a task that SystemExit is leaving; SystemExit leaves the task and the event
\* loop, generate_content cancels the tasks that have not finished, and the
\* program ends
ExitClose(j) ==
    /\ py.pc = "running"
    /\ j \in DOMAIN tasks
    /\ tasks[j].state = "exiting"
    /\ py' = [py EXCEPT !.pc = "exited"]
    /\ tasks' = CancelAll([tasks EXCEPT ![j].state = "exited"])
    /\ drv' = [drv EXCEPT !.pc = "cancelled"]
    /\ UNCHANGED <<compVars, parseVars, execVars, pymain, pipeVars>>

\* where the main thread is when the handler of PRAGMA AUTOSAVE raises SystemExit:
\* in the try of call_openai_api_async of a task whose client is made
\* (compiler.go:164-199), in the try of await client.close() of a task
\* (compiler.go:203-206), or anywhere else
RaisedAt(during) ==
    {[at |-> "elsewhere", task |-> 0]}
        \cup {[at |-> "call", task |-> j] :
                  j \in {k \in DOMAIN tasks : during /\ tasks[k].state = "calling"}}
        \cup {[at |-> "close", task |-> j] :
                  j \in {k \in DOMAIN tasks : during /\ tasks[k].state = "closing"}}

\* SIGINT arrives while the program runs, main() at its end included.  With the
\* handler of PRAGMA AUTOSAVE (compiler.go:90-107): shutdown is set,
\* save_current_results() saves the dataset of the registry and sys.exit(0) raises
\* SystemExit where the main thread is.  In the try of a task's API call the
\* finally clause awaits client.close() with SystemExit pending (compiler.go:200-204)
\* and the event loop runs on with shutdown set until that close returns; in the
\* try of await client.close() the bare except takes SystemExit
\* (compiler.go:203-206) and the program goes on with shutdown set; anywhere else
\* SystemExit ends the program, the tasks being cancelled on the way out
\* (compiler.go:366-380).  When main() is itself inside save_to_disk, the handler
\* finds the directory made already, and skips the save, or not yet; when
\* save_to_disk has returned the handler skips the save and main()'s own write,
\* without its JSON file, is what the program leaves.
\* Without it, while the loop of generate_content has its handler
\* (compiler.go:349-355): the loop runs handle_loop_signal in its next round, every
\* task is cancelled, generate_content_async ends with CancelledError and
\* generate_content returns the dataset it was given (compiler.go:360-365); when
\* generate_content_async has returned already the loop has no next round and the
\* signal has no effect.  Otherwise KeyboardInterrupt ends the program, after
\* save_to_disk with main()'s write in its directory and no JSON file of it.
Interrupt ==
    /\ py.pc # "exited"
    /\ py.sigint = "none"
    /\ LET during == py.pc = "running"
           noted == [py EXCEPT !.sigint = IF during THEN "in generation" ELSE "outside",
                               !.doneAtSigint = IF during THEN Completed ELSE {}]
       IN IF py.autosave
          THEN \E dirMade \in {FALSE, py.pc = "saving"} : \E raised \in RaisedAt(during) :
                  LET handled == [noted EXCEPT
                                     !.shutdown = TRUE,
                                     !.writes = IF dirMade THEN py.writes
                                                ELSE SaveCurrentResults(
                                                         py, LastDataset(py.registry), TRUE)]
                  IN IF raised.at = "close"
                     THEN /\ py' = handled
                          /\ UNCHANGED <<drv, tasks>>
                     ELSE IF raised.at = "call"
                     THEN /\ py' = handled
                          /\ tasks' = [tasks EXCEPT ![raised.task].state = "exiting"]
                          /\ UNCHANGED drv
                     ELSE /\ py' = [handled EXCEPT !.pc = "exited"]
                          /\ tasks' = CancelAll(tasks)
                          /\ drv' = IF during THEN [drv EXCEPT !.pc = "cancelled"] ELSE drv
          ELSE IF during /\ drv.loopHandler /\ drv.pc # "returned"
          THEN /\ py' = noted
               /\ tasks' = CancelAll(tasks)
               /\ drv' = [drv EXCEPT !.pc = "returned", !.result = LastDataset(py.registry)]
          ELSE IF during /\ drv.loopHandler
          THEN /\ py' = noted
               /\ UNCHANGED <<drv, tasks>>
          ELSE /\ py' = [noted EXCEPT !.pc = "exited"]
               /\ UNCHANGED <<drv, tasks>>
    /\ UNCHANGED <<compVars, parseVars, execVars, pymain, pipeVars>>

NextGen ==
    \/ MainLoad \/ MainGenerate \/ ChunkBegin
    \/ \E j \in 1..MaxItems : TaskRun(j)
    \/ \E j \in 1..MaxItems : TaskAcquire(j)
    \/ \E j \in 1..MaxItems : CallReturn(j)
    \/ \E j \in 1..MaxItems : ClientClose(j)
    \/ \E j \in 1..MaxItems : ExitClose(j)
    \/ GatherDone \/ LoopClose \/ MainUpdate \/ MainAssign \/ MainSave
    \/ MainSaveToDisk \/ MainSaved \/ MainReturn
    \/ Interrupt

SpecGen == InitGen /\ [][NextGen]_vars

(***************************************************************************)
(* Results and batches of the generated program.                           *)
(***************************************************************************)
\* the written dataset has the target field in row j
HasTarget(data, j) == \E k \in DOMAIN data : data[k] = Item(j, TRUE)

\* C11: when SIGINT arrives during a generation run, with or without the handler
\* of PRAGMA AUTOSAVE, every dataset the save routine writes from then on has the
\* generated target field of every row whose generation call had completed
\* before the interrupt (no dataset is written before the generation run).
C11_InterruptKeepsResults ==
    py.sigint = "in generation" =>
        \A w \in DOMAIN py.writes : \A j \in py.doneAtSigint :
            HasTarget(py.writes[w].data, j)

\* no chunk has more than BatchLimit (100) tasks, and while a task of a later
\* chunk exists every task of an earlier chunk has finished
ChunksInTurn ==
    /\ \A k \in 1..MaxItems :
          Cardinality({j \in DOMAIN tasks : tasks[j].chunk = k}) <= BatchLimit
    /\ \A a, b \in DOMAIN tasks :
          (tasks[a].chunk # 0 /\ tasks[a].chunk < tasks[b].chunk)
              => tasks[a].state \in Finished

\* C12 as stated: once the batch driver has started, the calls in flight never
\* exceed the concurrency setting the driver started with, whatever that setting
\* is, no chunk has more than BatchLimit (100) tasks, and while a task of a
\* later chunk exists every task of an earlier chunk has finished.
C12_BoundedBatches ==
    drv.pc # "none" => (InFlight <= py.concurrency /\ ChunksInTurn)

\* C12: once the batch driver has started with a concurrency setting that is not
\* negative, the calls in flight never exceed that setting; started with a
\* negative setting it creates no task and makes no call; in both cases no chunk
\* has more than BatchLimit (100) tasks, and while a task of a later chunk
\* exists every task of an earlier chunk has finished.
C12_BoundedBatchesFromZero ==
    drv.pc # "none" =>
        /\ py.concurrency >= 0 => InFlight <= py.concurrency
        /\ py.concurrency < 0 => \A j \in DOMAIN tasks : tasks[j].state = "none"
        /\ ChunksInTurn

\* with concurrency 1, a call of the second chunk is in flight after the full
\* first chunk, one of whose tasks had to wait for the semaphore, was processed
C12_Witness ==
    /\ py.concurrency = 1 /\ InFlight = 1
    /\ \E b \in DOMAIN tasks : tasks[b].chunk = 2 /\ tasks[b].state = "calling"
    /\ Cardinality({j \in DOMAIN tasks : tasks[j].chunk = 1 /\ tasks[j].state = "done"})
          = BatchLimit

(***************************************************************************)
(* The calls of a FROM block and its load call.                            *)
(***************************************************************************)
\* C21: in the code of every FROM block, every generation call on the block's
\* dataset variable and every save call comes after the block's dataset-load
\* call, also when the GENERATE or SAVE is written inside a WITH block of the
\* FROM block.
C21_NoCallBeforeLoad ==
    \A o \in DOMAIN outputs : \A i \in TopIndexes :
        program.Statements[i].type = "FromStatement" =>
            LET seg == SegmentOf(o, i)
                dv == DatasetVar(program.Statements[i].Dataset)
            IN \A k \in DOMAIN seg :
                  (seg[k] = SaveCallLine
                      \/ (seg[k].k = "= generate_content(" /\ seg[k].v[1] = dv))
                  => \E L \in 1..(k - 1) :
                        seg[L] = LoadLine(dv, program.Statements[i].Dataset)

(***************************************************************************)
(* The statements of a FROM block that reach the output.                   *)
(***************************************************************************)
\* s occurs in seg as one run of lines
OccursIn(code, seg) ==
    \E a \in DOMAIN seg : SubSeq(seg, a, a + Len(code) - 1) = code

\* C22: the compiler drops no statement of a FROM block: every statement of the
\* block has code of its own in the code of the FROM statement, and a PRAGMA
\* AUTOSAVE in a FROM block sets the Compiler's interrupt-handling flag and emits
\* the handler-registration line inside the code of that FROM statement.
C22_NoBlockStatementDropped ==
    \A o \in DOMAIN outputs : \A i \in TopIndexes :
        program.Statements[i].type = "FromStatement" =>
            LET n == program.Statements[i]
                seg == SegmentOf(o, i)
                dv == DatasetVar(n.Dataset)
            IN \A k \in DOMAIN DirectStmts(n) :
                  LET s == DirectStmts(n)[k]
                      code == compileBlockStatement(Builder0(outputs[o].found.debug), s, dv).out
                  IN /\ code # <<>>
                     /\ OccursIn(code, seg)
                     /\ IsAutosave(s) =>
                           /\ outputs[o].left.sig
                           /\ \E r \in DOMAIN seg : seg[r] = RegisterSigIntLine

(***************************************************************************)
(* main() of the generated program, line by line: the statement code that  *)
(* compileStatement emitted (compiler.go:435-664) is executed from its     *)
(* first line, after the default values of compiler.go:67-80.  A dataset   *)
(* is the sequence of its parts, each the name it was loaded from and the  *)
(* fields generated in it; loaded_datasets is a Python dict, which keeps   *)
(* its keys in the order of their first insertion.  No signal arrives and  *)
(* every generation run completes.  None is the empty sequence and a       *)
(* string value a sequence of one string.                                  *)
(***************************************************************************)
MaxRun == 4     \* top-level statements of a program that is run

\* load_dataset_with_config(name, ...): compiler.go:384-416
Loaded(name) == <<[from |-> name, fields |-> {}]>>
None == <<>>
\* the model_name argument of a generation call: 'x' or None (compiler.go:640-643)
ModelArg(line) == IF line.s[3] = "None" THEN None ELSE <<line.s[4]>>

\* generate_content(dataset, source, target, model_name, ...), compiler.go:253-339:
\* without a model or without an API key the dataset is returned as it is; otherwise
\* every row gets the target field from the model, in the place of the value the
\* row had in that field (compiler.go:244, item_dict[target_field] = response)
Generated(m, dataset, target, model_arg) ==
    LET model_name == IF model_arg = None THEN m.model ELSE model_arg
    IN IF model_name = None \/ m.api_key = None THEN dataset
       ELSE [k \in DOMAIN dataset |->
                [dataset[k] EXCEPT !.fields =
                    {f \in @ : f.field # target}
                        \cup {[field |-> target, model |-> model_name[1]]}]]

\* a local variable of main() is bound
Bind(env, v, val) == [x \in DOMAIN env \cup {v} |-> IF x = v THEN val ELSE env[x]]

\* os.path.splitext(save_filename)[0], on the file names of the programs run
Stem(file) ==
    CASE file = "output.json" -> "output"
      [] file = "output.txt" -> "output"
      [] OTHER -> file

\* d[key] = val on a dict: a key it has keeps its place
DictSet(d, key, val) ==
    IF \E k \in DOMAIN d : d[k].key = key
    THEN [k \in DOMAIN d |-> IF d[k].key = key THEN [key |-> key, val |-> val] ELSE d[k]]
    ELSE Append(d, [key |-> key, val |-> val])
\* d[key]
DictGet(d, key) == (CHOOSE k \in DOMAIN d : d[k].key = key)
\* list(d.keys())[-1]
LastKey(d) == d[Len(d)].key

\* the statements of the programs that are run
RunStmts ==
    { FromStatement("a", Nil), FromStatement("b", Nil),
      FromStatement("a", Block(<<GenQA>>)),
      FromStatement("b", Block(<<UsingBlock(<<UsingStatement("MODEL", "local"),
                                              UsingStatement("KEY", "key-b")>>)>>)),
      UsingBlock(<<UsingStatement("MODEL", "gpt"), UsingStatement("KEY", "key")>>),
      DatasetMergeStatement(<<"a", "b">>),
      SaveStatement("output.json"), SaveStatement("output.txt"),
      GenQA }
RunPrograms == { Program(s) : s \in SeqsUpTo(RunStmts, MaxRun) }

\* the line main() is at
RunLine == pymain.text[pymain.pc]
AtLine(kinds) ==
    /\ pymain # Nil
    /\ pymain.pc \in DOMAIN pymain.text
    /\ RunLine.k \in kinds
\* the next line; an exception ends main()
Step(m) == [m EXCEPT !.pc = m.pc + 1]
Raise(m, exc) == [m EXCEPT !.pc = 0, !.exception = exc]
RunFrame == UNCHANGED <<py, drv, tasks, compVars, parseVars, execVars, pipeVars>>

\* the lines without an effect on the datasets: comments, fields_<var> and filters_<var>
PassLines ==
    {"# load dataset", "fields_ = []", "filters_ = {}",
     "# load dataset with configured parameters", "# generate new fields",
     "# generate field", "# run async generation", "# merge datasets", "# save to file",
     "# save the dataset", "# select the last loaded dataset", "# autosave comment"}

InitRun ==
    /\ program \in RunPrograms
    /\ debug = FALSE /\ compiler = NoCompiler /\ compiled = FALSE /\ outputs = <<>>
    /\ input = <<>> /\ tokens = <<>> /\ position = 0 /\ stack = <<>>
    /\ dslpc = "done" /\ parsed = Nil /\ result = Nil
    /\ ExecIdle
    /\ py = Nil /\ drv = Nil /\ tasks = Nil /\ PipeIdle
    /\ pymain = [text |-> CompileText(SetDebug(NewCompiler(program), debug)),
                 pc |-> PreludeLen + 1,
                 model |-> None, api_key |-> None, api_url |-> None,
                 env |-> <<>>, loaded_datasets |-> <<>>,
                 output_file |-> "output.json", was_saved |-> FALSE,
                 last_dataset_name |-> <<>>, last_dataset |-> <<>>,
                 dirs |-> {}, writes |-> <<>>, log |-> <<>>, exception |-> "none"]

RunPass ==
    /\ AtLine(PassLines)
    /\ pymain' = Step(pymain)
    /\ RunFrame

\* compiler.go:480: <var> = load_dataset_with_config('<name>', ...)
RunLoad ==
    /\ AtLine({"= load_dataset_with_config("})
    /\ pymain' = Step([pymain EXCEPT
                          !.env = Bind(@, RunLine.v[1], Loaded(RunLine.s[1])),
                          !.log = Append(@, [op |-> "bound", var |-> RunLine.v[1]])])
    /\ RunFrame

\* compiler.go:482, :594, :765: loaded_datasets['<key>'] = <var>
RunRegister ==
    /\ AtLine({"loaded_datasets[] ="})
    /\ pymain' = IF RunLine.v[2] \in DOMAIN pymain.env
                 THEN Step([pymain EXCEPT
                               !.loaded_datasets =
                                   DictSet(@, RunLine.v[1], pymain.env[RunLine.v[2]])])
                 ELSE Raise(pymain, "NameError")
    /\ RunFrame

\* compiler.go:761: <var> = generate_content(<var>, '<source>', '<target>', ...)
RunGenerate ==
    /\ AtLine({"= generate_content("})
    /\ pymain' = IF RunLine.v[2] \in DOMAIN pymain.env
                 THEN Step([pymain EXCEPT
                               !.env = Bind(@, RunLine.v[1],
                                            Generated(pymain, pymain.env[RunLine.v[2]],
                                                      RunLine.s[2], ModelArg(RunLine)))])
                 ELSE Raise(pymain, "NameError")
    /\ RunFrame

RECURSIVE Concatenated(_, _)
\* concatenate_datasets([<var>, ...])
Concatenated(env, names) ==
    IF names = <<>> THEN <<>> ELSE env[Head(names)] \o Concatenated(env, Tail(names))

\* compiler.go:581-591: <merged> = concatenate_datasets([<var>, ...])
RunMerge ==
    /\ AtLine({"= concatenate_datasets(["})
    /\ LET operands == Tail(RunLine.v)
       IN pymain' = IF \A k \in DOMAIN operands : operands[k] \in DOMAIN pymain.env
                    THEN Step([pymain EXCEPT
                                  !.env = Bind(@, RunLine.v[1],
                                               Concatenated(pymain.env, operands)),
                                  !.log = Append(@, [op |-> "bound",
                                                     var |-> RunLine.v[1]])])
                    ELSE Raise(pymain, "NameError")
    /\ RunFrame

\* compiler.go:536-553 and :688-706: model = '<value>', api_key = ..., api_url = ...
RunUsing ==
    /\ AtLine({"model =", "api_key =", "api_url ="})
    /\ pymain' = CASE RunLine.k = "model =" -> Step([pymain EXCEPT !.model = RunLine.s])
                   [] RunLine.k = "api_key =" -> Step([pymain EXCEPT !.api_key = RunLine.s])
                   [] OTHER -> Step([pymain EXCEPT !.api_url = RunLine.s])
    /\ RunFrame

\* compiler.go:598-599: output_file = '<name>'; was_saved = True
RunAssign ==
    /\ AtLine({"output_file =", "was_saved = True"})
    /\ pymain' = IF RunLine.k = "output_file ="
                 THEN Step([pymain EXCEPT !.output_file = RunLine.s[1]])
                 ELSE Step([pymain EXCEPT !.was_saved = TRUE])
    /\ RunFrame

\* compiler.go:603 and :114-154: save_current_results()
RunSave ==
    /\ AtLine({"save_current_results()"})
    /\ pymain' =
         IF pymain.loaded_datasets = <<>> THEN Step(pymain)
         ELSE LET last_dataset_name == LastKey(pymain.loaded_datasets)
                  last_dataset == pymain.loaded_datasets[Len(pymain.loaded_datasets)].val
                  save_filename == IF pymain.was_saved THEN pymain.output_file
                                   ELSE "emergency_save"
                  chosen == [pymain EXCEPT
                                !.log = Append(@, [op |-> "selected",
                                                   var |-> last_dataset_name])]
                  dataset_dir == Stem(save_filename)
              IN IF dataset_dir \in pymain.dirs THEN Step(chosen)
                 ELSE Step([chosen EXCEPT
                               !.dirs = @ \cup {dataset_dir},
                               !.writes = Append(@, [file |-> save_filename,
                                                     name |-> last_dataset_name,
                                                     data |-> last_dataset])])
    /\ RunFrame

\* compiler.go:653: last_dataset_name = list(loaded_datasets.keys())[-1]
RunLastName ==
    /\ AtLine({"last_dataset_name = list(loaded_datasets.keys())[-1]"})
    /\ pymain' = IF pymain.loaded_datasets = <<>> THEN Raise(pymain, "IndexError")
                 ELSE Step([pymain EXCEPT
                               !.last_dataset_name = LastKey(pymain.loaded_datasets),
                               !.log = Append(@, [op |-> "selected",
                                                  var |-> LastKey(pymain.loaded_datasets)])])
    /\ RunFrame

\* compiler.go:654: last_dataset = loaded_datasets[last_dataset_name]
RunLast ==
    /\ AtLine({"last_dataset = loaded_datasets[last_dataset_name]"})
    /\ pymain' = Step([pymain EXCEPT
                          !.last_dataset =
                              pymain.loaded_datasets[
                                  DictGet(pymain.loaded_datasets,
                                          pymain.last_dataset_name)].val])
    /\ RunFrame

\* compiler.go:658: last_dataset = generate_content(last_dataset, ...)
RunGenerateLast ==
    /\ AtLine({"last_dataset = generate_content(last_dataset,"})
    /\ pymain' = Step([pymain EXCEPT
                          !.last_dataset = Generated(pymain, @, RunLine.s[2],
                                                     ModelArg(RunLine))])
    /\ RunFrame

\* compiler.go:662: loaded_datasets[last_dataset_name] = last_dataset
RunStoreLast ==
    /\ AtLine({"loaded_datasets[last_dataset_name] = last_dataset"})
    /\ pymain' = Step([pymain EXCEPT
                          !.loaded_datasets =
                              DictSet(@, pymain.last_dataset_name, pymain.last_dataset)])
    /\ RunFrame

\* compiler.go:428-429: main() returns
RunReturn ==
    /\ AtLine({"if __name__ == '__main__': main()"})
    /\ pymain' = [pymain EXCEPT !.pc = 0]
    /\ RunFrame

NextRun ==
    \/ RunPass \/ RunLoad \/ RunRegister \/ RunGenerate \/ RunMerge \/ RunUsing \/ RunAssign
    \/ RunSave \/ RunLastName \/ RunLast \/ RunGenerateLast \/ RunStoreLast \/ RunReturn

SpecRun == InitRun /\ [][NextRun]_vars

(***************************************************************************)
(* The dataset the save routine and a top-level GENERATE select.           *)
(***************************************************************************)
\* C23: whenever the save routine or a top-level GENERATE selects its dataset,
\* it selects the variable bound by the latest load or merge executed so far,
\* also when that variable had been registered earlier in the run.
C23_SelectsLatestBound ==
    \A e \in DOMAIN pymain.log :
        pymain.log[e].op = "selected" =>
            \E b \in 1..(e - 1) :
                /\ pymain.log[b].op = "bound"
                /\ \A x \in (b + 1)..(e - 1) : pymain.log[x].op # "bound"
                /\ pymain.log[b].var = pymain.log[e].var

(***************************************************************************)
(* USING inside a FROM block.                                              *)
(***************************************************************************)
\* main() is in the code of a top-level FROM statement
InFromCode ==
    \E i \in TopIndexes :
        /\ program.Statements[i].type = "FromStatement"
        /\ pymain.pc > StmtStart(i, debug)
        /\ pymain.pc <= StmtStart(i, debug) + StmtLen(program.Statements[i], debug)

\* C24: the code of a FROM statement, a USING statement or block in its block
\* included, leaves the global model, key and url as they were, so that it has no
\* effect on the generation calls of a later FROM block or top-level GENERATE.
C24_UsingInFromIsLocal ==
    [][(pymain # Nil /\ pymain.pc # 0 /\ InFromCode) =>
          /\ pymain'.model = pymain.model
          /\ pymain'.api_key = pymain.api_key
          /\ pymain'.api_url = pymain.api_url]_vars

(***************************************************************************)
(* Blocks and their closing braces.                                        *)
(***************************************************************************)
RECURSIVE Depths(_, _)
\* the nesting depth after each token, "{" opening and "}" closing a block
Depths(toks, d) ==
    IF toks = <<>> THEN <<>>
    ELSE LET n == CASE Head(toks) = "{" -> d + 1 [] Head(toks) = "}" -> d - 1 [] OTHER -> d
         IN <<n>> \o Depths(Tail(toks), n)

\* every "{" has its "}" after it (in the inputs of the model a brace is never
\* the operand of a statement)
Balanced(toks) ==
    LET ds == Depths(toks, 0)
    IN /\ \A k \in DOMAIN ds : ds[k] >= 0
       /\ toks # <<>> => ds[Len(ds)] = 0

\* the loops of the constructs that have consumed a "{" and look for its "}"
BlockLoops ==
    {"parseBlock", "parseUsingStatement", "parseFilterStatement", "parseGenerateStatement",
     "parsePromptStatement"}
InBlockLoop == dslpc = "parsing" /\ stack # <<>> /\ Top.fn \in BlockLoops

\* C25: Parse returns a Program only for tokens in which every block that was
\* opened is closed; a block loop (of a FROM or WITH block, a USING, FILTER,
\* GENERATE or PROMPT block) that comes to the end of the tokens makes Parse fail;
\* and a block loop is left without an error only by consuming a "}".
C25_BlocksClosed ==
    /\ []((dslpc \in {"parsed", "done"} /\ parsed.err = "") => Balanced(tokens))
    /\ [][(InBlockLoop /\ isEOF(position)) =>
              (dslpc' = "parsed" /\ parsed'.program = Nil /\ parsed'.err # "")]_vars
    /\ [][(InBlockLoop /\ dslpc' = "parsing" /\ Len(stack') < Len(stack)) =>
              (peekToken(position) = "}" /\ position' = position + 1)]_vars

\* Parse has failed at the end of the tokens with one block still open, a block
\* nested in it or standing before the end having been closed
C25_Witness ==
    /\ dslpc = "parsed"
    /\ parsed.program = Nil
    /\ parsed.err = "expected closing brace }"
    /\ position = Len(tokens)
    /\ Depths(tokens, 0)[Len(tokens)] = 1
    /\ \E k \in DOMAIN tokens : tokens[k] = "}"

(***************************************************************************)
(* The child's output and the return of Execute.                           *)
(***************************************************************************)
\* C26: when Execute returns, every line the child wrote to its standard output
\* and to its standard error has been printed on the parent's stream of the same
\* kind: cmd.Wait, which closes the pipes, cuts off no loop with unread output.
C26_OutputForwardedAtReturn ==
    ret.returned =>
        /\ io.shownOut = io.wroteOut
        /\ io.shownErr = io.wroteErr

(***************************************************************************)
(* The signal subscription and the goroutines after Execute has returned.  *)
(* Every goroutine that can take a step takes one in the end, and so does  *)
(* the clock; the child and the signals are not obliged to anything.       *)
(***************************************************************************)
SpecExecFair ==
    /\ SpecExec
    /\ WF_vars(ExecuteBegin \/ StdoutLoop \/ ExecuteWait)
    /\ WF_vars(StderrScan \/ StderrPrint)
    /\ WF_vars(WatcherReceive \/ WatcherDone \/ WatcherTimeout)
    /\ WF_vars(PollerCheck)
    /\ WF_vars(Tick)

\* the watcher and its poller are not running (or the whole process has ended)
WatcherGone ==
    \/ ~Alive
    \/ gor.watcher \in {"none", "finished"} /\ gor.poller \in {"none", "returned"}

\* C27: whenever Execute has returned, whatever the return path, the
\* subscription of sigChan has been stopped, and the signal watcher and its
\* poller terminate in the end: none stays blocked on sigChan or on done.
C27_ListenerCleanedUp ==
    /\ [](ret.returned => ~sigs.subscribed)
    /\ (ret.returned ~> WatcherGone)

(***************************************************************************)
(* The batch driver comes to its end.  The event loop runs every task that *)
(* can run, and every API call returns; SIGINT need not arrive.            *)
(***************************************************************************)
SpecGenFair ==
    /\ SpecGen
    /\ WF_vars(MainLoad \/ MainGenerate \/ LoopClose \/ MainUpdate
                  \/ MainAssign \/ MainSave \/ MainSaveToDisk \/ MainSaved
                  \/ MainReturn)
    /\ WF_vars(ChunkBegin \/ GatherDone)
    /\ \A j \in 1..MaxItems :
          /\ WF_vars(TaskRun(j))
          /\ WF_vars(TaskAcquire(j))
          /\ WF_vars(CallReturn(j))
          /\ WF_vars(ClientClose(j))
          /\ WF_vars(ExitClose(j))

\* C28: whatever concurrency value the program sets, 0 included, a generation
\* run over a dataset that is not empty comes to its end when every API call
\* returns: every chunk is completed (or the run is interrupted), no task
\* waiting for ever for the semaphore.
C28_DriverCompletes ==
    (py.pc = "running" /\ py.rows > 0) ~> (py.pc # "running")

(***************************************************************************)
(* Parse comes to its end.                                                 *)
(***************************************************************************)
\* the calling goroutine goes on running ParseAndCompile
SpecParseFair == SpecParse /\ WF_vars(NextParse)

\* C29: every step of Parse, that is every iteration of the statement loop, of
\* a block loop, of a bracketed list loop, of a USING, FILTER or GENERATE block
\* loop and of a PROMPT template loop, either moves the cursor forward by at
\* least one token or ends Parse (with an error, or at the end of the tokens with
\* the Program); so Parse terminates on every input.
C29_ParseTerminates ==
    /\ [][dslpc = "parsing" => (position' > position \/ dslpc' = "parsed")]_vars
    /\ [][(dslpc = "parsing" /\ dslpc' = "parsed" /\ parsed'.err = "")
             => isEOF(position)]_vars
    /\ (dslpc = "start" ~> dslpc = "done")

\* the list loop of FIELDS has taken elements up to the end of the tokens and has
\* then ended Parse with its error
C29_Witness ==
    /\ dslpc = "parsed"
    /\ parsed.err = "expected closing brace ]"
    /\ isEOF(position)
    /\ Len(tokens) >= 4
    /\ \E k \in DOMAIN tokens : tokens[k] = "FIELDS"

(***************************************************************************)
(* The in-process pipeline: DatasetGenerator and the processor Manager.    *)
(* A map of Go is a function; a value of an item is a sequence of strings. *)
(***************************************************************************)
MaxMappings == 2    \* entries of Config.Fields.Input
MaxProcessed == 2   \* worker goroutines of processDataset, one processItem call each

InputFields == {"question", "final_answer"}
OutputFields == {"", "problem"}
ProcessorIDs == {"", "llm", "identity", "llm_question"}

\* models.FieldMapping
FieldMappings ==
    [InputField : InputFields, OutputField : OutputFields, ProcessorID : ProcessorIDs]

\* models.Config, the part the generator reads when it registers and looks up
Configs ==
    [Input : UNION {[1..n -> FieldMappings] : n \in 0..MaxMappings},
     FilterEnabled : BOOLEAN,
     HuggingFaceEnabled : BOOLEAN]

\* the items of the input dataset
PipelineItems == UNION {[S -> {<<"text">>}] : S \in SUBSET InputFields}

\* "llm_" + InputField, the first argument of NewLLMProcessor
LLMProcessorID(InputField) ==
    CASE InputField = "question" -> "llm_question"
      [] InputField = "final_answer" -> "llm_final_answer"

NewIdentityProcessor == [kind |-> "identity", id |-> "identity"]
NewLLMProcessor(id) == [kind |-> "llm", id |-> id]
NewFilterProcessor == [kind |-> "filter", id |-> "filter"]
NewHuggingFaceProcessor(id) == [kind |-> "huggingface", id |-> id]

\* m[k] = v of Go
MapPut(m, k, v) == [x \in DOMAIN m \cup {k} |-> IF x = k THEN v ELSE m[x]]

NewManager == <<>>

\* Manager.Register: m.processors[processor.ID()] = processor
ManagerRegister(m, processor) == MapPut(m, processor.id, processor)

\* Manager.Get
ManagerGet(m, id) ==
    IF id \in DOMAIN m THEN [processor |-> m[id], err |-> ""]
    ELSE [processor |-> Nil, err |-> "processor not found"]

\* the loop of RegisterProcessors over Config.Fields.Input, from mapping i on
RECURSIVE RegisterLLM(_, _, _)
RegisterLLM(m, Input, i) ==
    IF i > Len(Input) THEN m
    ELSE RegisterLLM(
             IF Input[i].ProcessorID = "llm"
                 THEN ManagerRegister(m, NewLLMProcessor(LLMProcessorID(Input[i].InputField)))
                 ELSE m,
             Input, i + 1)

\* DatasetGenerator.RegisterProcessors: the Manager it leaves
RegisterProcessors(m, Config) ==
    LET base == ManagerRegister(m, NewIdentityProcessor)
        llm == RegisterLLM(base, Config.Input, 1)
        filter == IF Config.FilterEnabled THEN ManagerRegister(llm, NewFilterProcessor)
                  ELSE llm
    IN  IF Config.HuggingFaceEnabled
            THEN ManagerRegister(filter, NewHuggingFaceProcessor("huggingface"))
            ELSE filter

\* Processor.Process of the identity processor, which returns at once
IdentityProcess(value) == value

\* LLMProcessor.Process: what client.GenerateCompletion gives back when the API
\* answers; otherwise (request failed, context cancelled or timed out) an error
LLMProcess(processor, value, api) ==
    IF api THEN [value |-> <<processor.id>> \o value, err |-> ""]
    ELSE [value |-> <<>>, err |-> "processing failed"]

NoReturn == [result |-> Nil, err |-> "", processorID |-> ""]

\* a worker goroutine of processDataset that has not been started
IdleWorker ==
    [state |-> "idle", item |-> <<>>, i |-> 0, res |-> <<>>, processor |-> Nil,
     returned |-> NoReturn]

\* the output field of a mapping
OutputFieldOf(field) ==
    IF field.OutputField = "" THEN field.InputField ELSE field.OutputField

\* processItem after its loop: the fields of the item that the result lacks are
\* added and the result is returned
processItemReturn(w) ==
    [w EXCEPT !.state = "returned",
              !.returned = [result |-> [k \in DOMAIN w.res \cup DOMAIN w.item |->
                                           IF k \in DOMAIN w.res THEN w.res[k]
                                           ELSE w.item[k]],
                            err |-> "", processorID |-> ""]]

\* processItem returns an error
processItemFail(w, err, processorID) ==
    [w EXCEPT !.state = "returned",
              !.returned = [result |-> Nil, err |-> err, processorID |-> processorID]]

\* result[outputField] = processed, and the loop goes to the next mapping
processItemPut(w, field, processed) ==
    [w EXCEPT !.state = "loop", !.i = w.i + 1, !.processor = Nil,
              !.res = MapPut(w.res, OutputFieldOf(field), processed)]

\* one round of the loop of processItem over Config.Fields.Input, up to the
\* return of Manager.Get and, for the identity processor, of Process; the request
\* of an LLM processor is left in flight
processItemField(m, Input, w) ==
    IF w.i > Len(Input) THEN processItemReturn(w)
    ELSE
        LET field == Input[w.i]
        IN  IF field.InputField \notin DOMAIN w.item
                THEN [w EXCEPT !.i = w.i + 1]
            ELSE IF field.ProcessorID = ""
                THEN processItemPut(w, field, w.item[field.InputField])
            ELSE
                LET got == ManagerGet(m, field.ProcessorID)
                IN  IF got.err # ""
                        THEN processItemFail(w, got.err, field.ProcessorID)
                    ELSE IF got.processor.kind = "identity"
                        THEN processItemPut(w, field,
                                            IdentityProcess(w.item[field.InputField]))
                    ELSE [w EXCEPT !.state = "calling", !.processor = got.processor]

InitPipeline ==
    /\ \E Config \in Configs :
           generator = [pc |-> "config", Config |-> Config, ProcessorMgr |-> NewManager,
                        workers |-> [w \in 1..MaxProcessed |-> IdleWorker]]
    /\ program = Nil /\ debug = FALSE /\ compiler = NoCompiler /\ compiled = FALSE /\ outputs = <<>>
    /\ input = <<>> /\ tokens = <<>> /\ position = 0 /\ stack = <<>>
    /\ dslpc = "done" /\ parsed = Nil /\ result = Nil
    /\ ExecIdle /\ PyIdle

PipelineFrame == UNCHANGED <<compVars, parseVars, execVars, pyVars>>

\* NewDatasetGenerator: a new Manager, then RegisterProcessors
NewDatasetGenerator ==
    /\ generator # Nil /\ generator.pc = "config"
    /\ generator' = [generator EXCEPT
           !.pc = "ready",
           !.ProcessorMgr = RegisterProcessors(NewManager, generator.Config)]
    /\ PipelineFrame

\* processDataset starts a worker goroutine for an item, which calls processItem
ProcessItem(w) ==
    /\ generator # Nil /\ generator.pc = "ready"
    /\ generator.workers[w].state = "idle"
    /\ \E item \in PipelineItems :
           generator' = [generator EXCEPT
               !.workers[w] = [IdleWorker EXCEPT !.state = "loop", !.item = item, !.i = 1]]
    /\ PipelineFrame

\* a worker runs one round of the loop of processItem, or returns after the last
ProcessItemField(w) ==
    /\ generator # Nil /\ generator.pc = "ready"
    /\ generator.workers[w].state = "loop"
    /\ generator' = [generator EXCEPT
           !.workers[w] = processItemField(generator.ProcessorMgr, generator.Config.Input,
                                           generator.workers[w])]
    /\ PipelineFrame

\* the request of a worker's LLM processor comes back, or fails
ProcessItemReply(w) ==
    /\ generator # Nil /\ generator.pc = "ready"
    /\ generator.workers[w].state = "calling"
    /\ \E api \in BOOLEAN :
          LET wk == generator.workers[w]
              field == generator.Config.Input[wk.i]
              processed == LLMProcess(wk.processor, wk.item[field.InputField], api)
          IN  generator' = [generator EXCEPT
                  !.workers[w] = IF processed.err # ""
                                 THEN processItemFail(wk, processed.err, field.ProcessorID)
                                 ELSE processItemPut(wk, field, processed.value)]
    /\ PipelineFrame

NextPipeline ==
    \/ NewDatasetGenerator
    \/ \E w \in 1..MaxProcessed : ProcessItem(w)
    \/ \E w \in 1..MaxProcessed : ProcessItemField(w)
    \/ \E w \in 1..MaxProcessed : ProcessItemReply(w)

SpecPipeline == InitPipeline /\ [][NextPipeline]_vars

\* C30: for every configured mapping whose ProcessorID is "llm", the processor
\* that RegisterProcessors registered for it is the one processItem gets from the
\* Manager under the mapping's ProcessorID, and no processItem call is rejected
\* with "processor not found" for the identifier "llm".
C30_LLMLookupSucceeds ==
    (generator # Nil /\ generator.pc = "ready") =>
        /\ \A i \in DOMAIN generator.Config.Input :
               LET mapping == generator.Config.Input[i]
               IN  mapping.ProcessorID = "llm" =>
                       LET got == ManagerGet(generator.ProcessorMgr, mapping.ProcessorID)
                       IN  /\ got.err = ""
                           /\ got.processor.id = LLMProcessorID(mapping.InputField)
        /\ \A w \in DOMAIN generator.workers :
               ~(/\ generator.workers[w].returned.err = "processor not found"
                 /\ generator.workers[w].returned.processorID = "llm")

\* a processItem call has been rejected: the Manager holds no processor "llm"
C30_Rejected ==
    /\ generator # Nil /\ generator.pc = "ready"
    /\ \E w \in DOMAIN generator.workers :
          /\ generator.workers[w].returned.err = "processor not found"
          /\ generator.workers[w].returned.processorID = "llm"
====
